---- MODULE Spec2Model ----
(***************************************************************************)
(* polymarket-arb-bot: the pre-trade risk gate (modules/risk.py), the      *)
(* split-then-hedge executor (modules/trading.py), the pair-cost execution *)
(* path (modules/scanner.py), the position ledger (modules/positions.py)   *)
(* and the reconnecting price feed (modules/ws_feed.py).                   *)
(*                                                                         *)
(* Units.  Prices are integers in units of 0.001 (ONE = 1.0).  Sizes and   *)
(* dollar amounts (caps, portfolio value, balances) are integers in units  *)
(* of 0.01 dollar.  A product size * price (an exposure, a realized P&L)  *)
(* is therefore in units of 0.00001 dollar, and a dollar amount compared   *)
(* with such a product is first multiplied by ONE.  Time is in whole       *)
(* hours since a UTC midnight.                                             *)
(***************************************************************************)
EXTENDS Integers, Sequences, FiniteSets, TLC

VARIABLES
    now,                        \* time.time(), hours
    _kill_switch_active,         \* risk._kill_switch_active
    _initial_portfolio_value,    \* risk._initial_portfolio_value (None or dollars)
    ipv_recorded_at,            \* history: the time set_initial_portfolio_value ran
    positions,                  \* contents of positions.json
    _recent_trades,              \* scanner._recent_trades
    last,                       \* history: the call whose result the caller holds
    _running,                    \* MarketFeed._running
    _reconnect_delay,            \* MarketFeed._reconnect_delay, seconds
    feed_pc,                    \* where MarketFeed.start() stands
    connects,                   \* history: connect attempts made so far
    waited,                     \* history: seconds slept since the last attempt ended
    _ws,                         \* MarketFeed._ws: "none", an "open" or a "closed" connection
    stops,                      \* history: calls of MarketFeed.stop() so far
    delivered,                  \* history: the last message handled on the connection
    engine_running,             \* TradingEngine._running
    _cycle,                      \* TradingEngine._cycle
    _ws_feed,                    \* TradingEngine._ws_feed is set
    run_pc,                     \* where TradingEngine.run() stands
    poll_pc,                    \* where the _poll_loop task stands
    feed_task,                  \* where the _start_ws_feed task stands
    tick,                       \* history: the fetch and the on_tick calls of this tick
    engine_stopped,             \* history: TradingEngine.stop() has been called
    sync_task,                  \* a sync_positions_with_chain call suspended at a market lookup
    refreshing                  \* execute_opportunity calls suspended at the market refresh

feedVars == <<_running, _reconnect_delay, feed_pc, connects, waited, _ws, stops,
              delivered>>

botVars == <<now, _kill_switch_active, _initial_portfolio_value, ipv_recorded_at,
             positions, _recent_trades, last>>

engineVars == <<engine_running, _cycle, _ws_feed, run_pc, poll_pc, feed_task,
                tick, engine_stopped>>

taskVars == <<sync_task, refreshing>>

vars == <<botVars, feedVars, engineVars, taskVars>>

-----------------------------------------------------------------------------
(* Representation *)

None == 0 - 1                   \* Python None for an optional number
ONE == 1000                     \* the float 1.0 in price units
HOURS_PER_DAY == 24

(* Configuration (environment variables read at import) *)
MAX_POSITION_SIZE == 20
MAX_DRAWDOWN_PCT == 20
MAX_DAILY_LOSS == 6
MAX_MARKET_EXPOSURE == 15
MAX_TOTAL_EXPOSURE == 18
MAX_CONCURRENT_POSITIONS == 3
MAX_TRADES_PER_HOUR == 2
TAKER_FEE_RATE == 1
CLOB_MAX_RETRIES == 3

(* Bounds of the model *)
MaxPositions == 3               \* ledger length at which recording stops (risk gate)
MaxTradePositions == 2          \* the same, where the executor is explored

(* Input sets *)
Times == {0, 24}                \* the instants the clock is sampled at
Markets == {"m1", "m2"}
Sides == {"YES", "NO"}
ProposedSizes == {10, 30}
CheckedMarkets == {"m1", ""}    \* the condition_id a check names, "" when omitted
PortfolioValues == {15}

Min(a, b) == IF a < b THEN a ELSE b

RECURSIVE SumSeq(_)
SumSeq(s) == IF s = <<>> THEN 0 ELSE Head(s) + SumSeq(Tail(s))

RECURSIVE Pow2(_)
Pow2(n) == IF n = 0 THEN 1 ELSE 2 * Pow2(n - 1)

-----------------------------------------------------------------------------
(* modules/positions.py *)

record_position(poss, condition_id, side, size, entry_price, t) ==
    Append(poss, [id           |-> <<condition_id, side, t>>,
                  condition_id |-> condition_id,
                  side         |-> side,
                  size         |-> size,
                  entry_price  |-> entry_price,
                  opened_at    |-> t,
                  closed       |-> FALSE,
                  closed_at    |-> None,
                  exit_price   |-> None,
                  realized_pnl |-> 0,
                  sync_note    |-> ""])

\* round(x, 4) on a product: four decimals of a dollar are PNL_QUANTUM units
PNL_QUANTUM == 10

\* a rounding that truncates toward minus infinity
floor4(x) == x - (x % PNL_QUANTUM)

\* round(x, 4): to the nearest multiple of PNL_QUANTUM, a tie to the even one
round4(x) ==
    LET down == x - (x % PNL_QUANTUM)
        rest == x % PNL_QUANTUM
    IN IF 2 * rest < PNL_QUANTUM THEN down
       ELSE IF 2 * rest > PNL_QUANTUM THEN down + PNL_QUANTUM
       ELSE IF (down \div PNL_QUANTUM) % 2 = 0 THEN down
       ELSE down + PNL_QUANTUM

\* the fields close_position and close_position_by_market set on the match
CloseFields(p, exit_price, t) ==
    [p EXCEPT !.closed = TRUE,
              !.closed_at = t,
              !.exit_price = IF exit_price # None THEN exit_price ELSE @,
              !.realized_pnl = IF exit_price # None
                               THEN round4((exit_price - p.entry_price) * p.size)
                               ELSE @]

\* index of the first open position with this market and side, 0 when none
FirstOpenMatch(poss, condition_id, side) ==
    LET hits == {i \in 1..Len(poss) :
                    /\ poss[i].condition_id = condition_id
                    /\ poss[i].side = side
                    /\ ~poss[i].closed}
    IN IF hits = {} THEN 0 ELSE CHOOSE i \in hits : \A j \in hits : i <= j

\* a search that does not look at the closed flag
LastMatchOpenOrClosed(poss, condition_id, side) ==
    LET hits == {i \in 1..Len(poss) :
                    /\ poss[i].condition_id = condition_id
                    /\ poss[i].side = side}
    IN IF hits = {} THEN 0 ELSE CHOOSE i \in hits : \A j \in hits : j <= i

\* index of the last open position with this market and side, 0 when none:
\* the first hit of the loop over reversed(positions)
LastOpenMatch(poss, condition_id, side) ==
    LET hits == {i \in 1..Len(poss) :
                    /\ poss[i].condition_id = condition_id
                    /\ poss[i].side = side
                    /\ ~poss[i].closed}
    IN IF hits = {} THEN 0 ELSE CHOOSE i \in hits : \A j \in hits : j <= i

close_position_by_market(poss, condition_id, side, exit_price, t) ==
    LET i == LastOpenMatch(poss, condition_id, side)
    IN IF i = 0
       THEN [positions |-> poss, closed |-> FALSE]
       ELSE [positions |-> [poss EXCEPT ![i] = CloseFields(poss[i], exit_price, t)],
             closed    |-> TRUE]

\* index of the first position with this id, 0 when none
FirstWithId(poss, position_id) ==
    LET hits == {i \in 1..Len(poss) : poss[i].id = position_id}
    IN IF hits = {} THEN 0 ELSE CHOOSE i \in hits : \A j \in hits : i <= j

close_position(poss, position_id, exit_price, t) ==
    LET i == FirstWithId(poss, position_id)
    IN IF i = 0
       THEN [positions |-> poss, closed |-> FALSE]
       ELSE [positions |-> [poss EXCEPT ![i] = CloseFields(poss[i], exit_price, t)],
             closed    |-> TRUE]

\* the store as _load_positions returns it: [] when the file is missing,
\* is not valid JSON or cannot be read
_load_positions(store, readable) == IF readable THEN store ELSE <<>>

get_pnl_summary(poss) ==
    LET closed_pos == SelectSeq(poss, LAMBDA p : p.closed)
        open_pos == SelectSeq(poss, LAMBDA p : ~p.closed)
    IN [total_trades |-> Len(poss),
        open         |-> Len(open_pos),
        closed       |-> Len(closed_pos),
        realized_pnl |-> round4(SumSeq([i \in 1..Len(closed_pos) |->
                                          closed_pos[i].realized_pnl]))]

\* 0.01 dollar, the difference sync_positions_with_chain tolerates
SYNC_TOLERANCE == 1

Abs(x) == IF x < 0 THEN 0 - x ELSE x

\* a comparison that already reports a difference of exactly the tolerance
balance_differs_at_tolerance(onchain_balance, local_size) ==
    Abs(onchain_balance - local_size) >= SYNC_TOLERANCE

balance_differs(onchain_balance, local_size) ==
    Abs(onchain_balance - local_size) > SYNC_TOLERANCE

\* get_onchain_balance: the balance the contract holds, or 0.0 when the
\* balanceOf call raises
get_onchain_balance(balance, rpc_ok) == IF rpc_ok THEN balance ELSE 0

\* one pass of the loop body of sync_positions_with_chain over a position;
\* chain.token[side] tells whether the market and the side's token id were
\* found, chain.balance[side] is what get_onchain_balance returns for it
sync_one(pos, chain, t) ==
    IF pos.closed THEN pos
    ELSE IF ~chain.token[pos.side] THEN pos
    ELSE IF ~balance_differs(chain.balance[pos.side], pos.size) THEN pos
    ELSE IF chain.balance[pos.side] = 0
    THEN [pos EXCEPT !.closed = TRUE, !.closed_at = t,
                     !.sync_note = "closed_by_chain_sync"]
    ELSE [pos EXCEPT !.size = chain.balance[pos.side],
                     !.sync_note = "size_adjusted_by_chain_sync"]

sync_positions_with_chain(poss, chain, t) ==
    LET synced_positions == [i \in 1..Len(poss) |-> sync_one(poss[i], chain, t)]
        corrected == {i \in 1..Len(poss) :
                        /\ ~poss[i].closed
                        /\ chain.token[poss[i].side]
                        /\ balance_differs(chain.balance[poss[i].side],
                                           poss[i].size)}
    IN [positions         |-> synced_positions,
        positions_checked |-> Len(SelectSeq(poss, LAMBDA p : ~p.closed)),
        discrepancies     |-> Cardinality(corrected),
        synced            |-> Cardinality(corrected)]

-----------------------------------------------------------------------------
(* modules/risk.py *)

V_KILL == "Kill switch is active"
V_SIZE == "Size exceeds per-trade limit"
V_CONCURRENT == "At max concurrent positions"
V_MARKET == "Market exposure exceeds cap"
V_TOTAL == "Total exposure exceeds cap"
V_DAILY == "Daily loss exceeds limit"
V_DRAWDOWN == "Drawdown exceeds limit"

_today_start_ts(t) == (t \div HOURS_PER_DAY) * HOURS_PER_DAY

\* a daily loss that forgets the midnight cutoff
_compute_daily_loss_all_time(poss, t) ==
    LET loss(p) == IF p.closed /\ p.realized_pnl < 0 THEN 0 - p.realized_pnl ELSE 0
    IN SumSeq([i \in 1..Len(poss) |-> loss(poss[i])])

_compute_daily_loss(poss, t) ==
    LET day_start == _today_start_ts(t)
        loss(p) == IF ~p.closed THEN 0
                   ELSE IF p.closed_at < day_start THEN 0
                   ELSE IF p.realized_pnl < 0 THEN 0 - p.realized_pnl
                   ELSE 0
    IN SumSeq([i \in 1..Len(poss) |-> loss(poss[i])])

\* a ledger filter that lets closed positions through
open_only_unfiltered(poss) == poss

open_only(poss) == SelectSeq(poss, LAMBDA p : ~p.closed)

\* sum(p["size"] * p["entry_price"] for p in ps)
exposure(ps) == SumSeq([i \in 1..Len(ps) |-> ps[i].size * ps[i].entry_price])

size_violation(proposed_size) ==
    IF proposed_size > MAX_POSITION_SIZE THEN <<V_SIZE>> ELSE <<>>

concurrent_violation(open_positions) ==
    IF Len(open_positions) >= MAX_CONCURRENT_POSITIONS
    THEN <<V_CONCURRENT>> ELSE <<>>

market_exposure_of(open_positions, condition_id) ==
    exposure(SelectSeq(open_positions, LAMBDA p : p.condition_id = condition_id))

market_violation(open_positions, proposed_size, condition_id) ==
    IF /\ condition_id # ""
       /\ market_exposure_of(open_positions, condition_id) + proposed_size * ONE
            > MAX_MARKET_EXPOSURE * ONE
    THEN <<V_MARKET>> ELSE <<>>

total_violation(open_positions, proposed_size) ==
    IF exposure(open_positions) + proposed_size * ONE > MAX_TOTAL_EXPOSURE * ONE
    THEN <<V_TOTAL>> ELSE <<>>

daily_loss_hit(daily_loss) == daily_loss >= MAX_DAILY_LOSS * ONE

daily_violation(daily_loss) ==
    IF daily_loss_hit(daily_loss) THEN <<V_DAILY>> ELSE <<>>

\* drawdown_pct = (initial - current_value) / initial * 100 >= MAX_DRAWDOWN_PCT,
\* with current_value = initial - daily_loss, cleared of the division
drawdown_hit(ipv, daily_loss) ==
    /\ ipv # None
    /\ ipv # 0
    /\ ipv > 0
    /\ LET value == ipv * ONE
           current_value == value - daily_loss
       IN (value - current_value) * 100 >= MAX_DRAWDOWN_PCT * value

\* a drawdown check that trips the switch without reporting the violation
drawdown_violation_silent(ipv, daily_loss) == <<>>

drawdown_violation(ipv, daily_loss) ==
    IF drawdown_hit(ipv, daily_loss) THEN <<V_DRAWDOWN>> ELSE <<>>

\* a gate that returns at its first violation
RECURSIVE collect_violations_first_only(_)
collect_violations_first_only(checks) ==
    IF checks = <<>> THEN <<>>
    ELSE IF Head(checks) # <<>> THEN Head(checks)
    ELSE collect_violations_first_only(Tail(checks))

\* the violations list in the order the checks append to it
collect_violations(checks) ==
    checks[1] \o checks[2] \o checks[3] \o checks[4] \o checks[5] \o checks[6]

\* check_risk_limits once the kill switch is known to be off; kill is the value
\* of _kill_switch_active when the call returns
normal_checks(ipv, poss, proposed_size, condition_id, t) ==
    LET open_positions == open_only(poss)
        daily_loss == _compute_daily_loss(poss, t)
        violations ==
            collect_violations(
                <<size_violation(proposed_size),
                  concurrent_violation(open_positions),
                  market_violation(open_positions, proposed_size, condition_id),
                  total_violation(open_positions, proposed_size),
                  daily_violation(daily_loss),
                  drawdown_violation(ipv, daily_loss)>>)
    IN [allowed    |-> Len(violations) = 0,
        violations |-> violations,
        kill       |-> daily_loss_hit(daily_loss) \/ drawdown_hit(ipv, daily_loss)]

\* a gate whose kill-switch branch appends its violation and falls through
check_risk_limits_falls_through(kill, ipv, poss, proposed_size, condition_id, t) ==
    LET r == normal_checks(ipv, poss, proposed_size, condition_id, t)
    IN IF kill
       THEN [allowed |-> FALSE, violations |-> <<V_KILL>> \o r.violations,
             kill |-> TRUE]
       ELSE r

check_risk_limits(kill, ipv, poss, proposed_size, condition_id, t) ==
    IF kill
    THEN [allowed |-> FALSE, violations |-> <<V_KILL>>, kill |-> TRUE]
    ELSE normal_checks(ipv, poss, proposed_size, condition_id, t)

-----------------------------------------------------------------------------
(* modules/trading.py *)

\* the receipt status of the split transaction, or an exception out of
\* split_position (bad condition id, RPC error, receipt timeout)
SplitOutcomes == {"success", "failed", "raised"}

\* one answer of the CLOB per attempt: TRUE when post_order returns,
\* FALSE when create_order or post_order raises
OrderOutcomes == [1..CLOB_MAX_RETRIES -> BOOLEAN]
NoAnswers == [i \in 1..CLOB_MAX_RETRIES |-> FALSE]

\* the order result None, and the value of sell_result when no order is made
NoOrder == [status |-> "None", attempt |-> 0, calls |-> 0, sleeps |-> <<>>]

\* the retry loop of place_order from `attempt` (0-based) on; calls counts the
\* post_order attempts made, sleeps lists the time.sleep arguments in order
RECURSIVE place_order_loop(_, _, _)
place_order_loop(outcomes, attempt, sleeps) ==
    IF attempt >= CLOB_MAX_RETRIES
    THEN [status |-> "None", attempt |-> 0, calls |-> attempt, sleeps |-> sleeps]
    ELSE IF outcomes[attempt + 1]
    THEN [status |-> "placed", attempt |-> attempt + 1, calls |-> attempt + 1,
          sleeps |-> sleeps]
    ELSE place_order_loop(outcomes, attempt + 1,
                          IF attempt < CLOB_MAX_RETRIES - 1
                          THEN Append(sleeps, Pow2(attempt))
                          ELSE sleeps)

\* a retry loop that also backs off after its last attempt
RECURSIVE place_order_sleeps_always(_, _, _)
place_order_sleeps_always(outcomes, attempt, sleeps) ==
    IF attempt >= CLOB_MAX_RETRIES
    THEN [status |-> "None", attempt |-> 0, calls |-> attempt, sleeps |-> sleeps]
    ELSE IF outcomes[attempt + 1]
    THEN [status |-> "placed", attempt |-> attempt + 1, calls |-> attempt + 1,
          sleeps |-> sleeps]
    ELSE place_order_sleeps_always(outcomes, attempt + 1,
                                   Append(sleeps, Pow2(attempt)))

place_order_backoff_after_last(outcomes) ==
    place_order_sleeps_always(outcomes, 0, <<>>)

place_order(outcomes) == place_order_loop(outcomes, 0, <<>>)

split_position(outcome) == outcome

\* what buy returns and does; splits counts the split transactions submitted,
\* splits_ok those that succeeded, sell is the hedge order's result
BuyOutcome(status, poss, splits, splits_ok, sell, recovered, entry_price, notified) ==
    [status      |-> status,
     positions   |-> poss,
     splits      |-> splits,
     splits_ok   |-> splits_ok,
     sell        |-> sell,
     recovered   |-> recovered,
     entry_price |-> entry_price,
     notified    |-> notified]

\* a recovery booked whenever the hedge was attempted
recovered_usdc_if_attempted(sell_result, current_price, amount_usdc) ==
    IF sell_result.calls > 0
    THEN (ONE - current_price) * amount_usdc
    ELSE 0

recovered_usdc(sell_result, current_price, amount_usdc) ==
    IF sell_result.status = "placed"
    THEN (ONE - current_price) * amount_usdc
    ELSE 0

\* steps 2 and 3 of buy; a token id is a string, "" stands for a missing
\* (None or empty) id
buy_after_split(poss, condition_id, side, amount_usdc, current_price, yes_token_id, no_token_id, skip_sell, order_outcomes, t) ==
    LET unwanted_token_id == IF side = "YES" THEN no_token_id ELSE yes_token_id
        sell_result == IF ~skip_sell /\ unwanted_token_id # ""
                       THEN place_order(order_outcomes)
                       ELSE NoOrder
        recovered == recovered_usdc(sell_result, current_price, amount_usdc)
        net_cost == amount_usdc * ONE - recovered
        entry_price == IF amount_usdc > 0 THEN net_cost \div amount_usdc
                       ELSE current_price
    IN BuyOutcome("executed",
                  record_position(poss, condition_id, side, amount_usdc,
                                  entry_price, t),
                  1, 1, sell_result, recovered, entry_price, TRUE)

\* a buy that goes on to hedge and record after a split that reported failure
buy_unchecked_split(poss, condition_id, side, amount_usdc, current_price, yes_token_id, no_token_id, skip_sell, dry_run, split_outcome, order_outcomes, t) ==
    IF dry_run
    THEN BuyOutcome("dry_run", poss, 0, 0, NoOrder, 0, None, FALSE)
    ELSE IF split_position(split_outcome) = "raised"
    THEN BuyOutcome("raised", poss, 1, 0, NoOrder, 0, None, FALSE)
    ELSE [buy_after_split(poss, condition_id, side, amount_usdc, current_price,
                          yes_token_id, no_token_id, skip_sell, order_outcomes, t)
            EXCEPT !.splits_ok = IF split_position(split_outcome) = "success"
                                 THEN 1 ELSE 0]

\* a buy that does not look at dry_run
buy_despite_dry_run(poss, condition_id, side, amount_usdc, current_price, yes_token_id, no_token_id, skip_sell, dry_run, split_outcome, order_outcomes, t) ==
    IF split_position(split_outcome) = "raised"
    THEN BuyOutcome("raised", poss, 1, 0, NoOrder, 0, None, FALSE)
    ELSE IF split_position(split_outcome) # "success"
    THEN BuyOutcome("split_failed", poss, 1, 0, NoOrder, 0, None, FALSE)
    ELSE buy_after_split(poss, condition_id, side, amount_usdc, current_price,
                         yes_token_id, no_token_id, skip_sell, order_outcomes, t)

buy(poss, condition_id, side, amount_usdc, current_price, yes_token_id, no_token_id, skip_sell, dry_run, split_outcome, order_outcomes, t) ==
    IF dry_run
    THEN BuyOutcome("dry_run", poss, 0, 0, NoOrder, 0, None, FALSE)
    ELSE IF split_position(split_outcome) = "raised"
    THEN BuyOutcome("raised", poss, 1, 0, NoOrder, 0, None, FALSE)
    ELSE IF split_position(split_outcome) # "success"
    THEN BuyOutcome("split_failed", poss, 1, 0, NoOrder, 0, None, FALSE)
    ELSE buy_after_split(poss, condition_id, side, amount_usdc, current_price,
                         yes_token_id, no_token_id, skip_sell, order_outcomes, t)

\* an exit that closes the position whatever became of the order
sell_position_closes_regardless(poss, price, condition_id, side, dry_run, order_outcomes, t) ==
    IF dry_run
    THEN [status |-> "dry_run", positions |-> poss, order |-> NoOrder,
          position_closed |-> FALSE]
    ELSE
    LET result == place_order(order_outcomes)
        c == close_position_by_market(poss, condition_id, side, price, t)
    IN [status          |-> IF result.status = "placed" THEN "sold" ELSE "sell_failed",
        positions       |-> c.positions,
        order           |-> result,
        position_closed |-> c.closed]

sell_position(poss, price, condition_id, side, dry_run, order_outcomes, t) ==
    IF dry_run
    THEN [status |-> "dry_run", positions |-> poss, order |-> NoOrder,
          position_closed |-> FALSE]
    ELSE
    LET result == place_order(order_outcomes)
    IN IF result.status = "placed"
       THEN LET c == close_position_by_market(poss, condition_id, side, price, t)
            IN [status |-> "sold", positions |-> c.positions, order |-> result,
                position_closed |-> c.closed]
       ELSE [status |-> "sell_failed", positions |-> poss, order |-> result,
             position_closed |-> FALSE]

-----------------------------------------------------------------------------
(* modules/scanner.py *)

\* 3600 seconds, in hours
TRADE_WINDOW == 1

_trades_in_last_hour(trades, t) ==
    LET cutoff == t - TRADE_WINDOW
    IN Cardinality({i \in 1..Len(trades) : trades[i] > cutoff})

\* get_market_detail's answer: no market, or the refreshed record
NoMarket == [found |-> FALSE]

\* `x or 0` on an optional price
OrZero(x) == IF x = None THEN 0 ELSE x

\* yes_price + no_price + (TAKER_FEE_RATE * 2) on the refreshed market
refreshed_cost_of(market) ==
    OrZero(market.yes_price) + OrZero(market.no_price) + TAKER_FEE_RATE * 2

\* a staleness test that lets a cost of exactly 1.0 through
opportunity_gone_above_one(refreshed_cost) == refreshed_cost > ONE

opportunity_gone(refreshed_cost) == refreshed_cost >= ONE

\* execute_opportunity from the answer of get_market_detail on; returned is
\* "None" (skipped), "result" (the dict) or "raised" (an exception out of a buy)
execute_after_refresh(poss, trades, opp, dry_run, market, split_yes, split_no, t) ==
    LET skipped == [returned |-> "None", positions |-> poss, trades |-> trades,
                    splits |-> 0, splits_ok |-> 0,
                    yes_status |-> "none", no_status |-> "none", size |-> 0]
        size == Min(opp.max_size, MAX_POSITION_SIZE)
    IN
    IF ~market.found THEN skipped
    ELSE
    LET yes_price == OrZero(market.yes_price)
        no_price == OrZero(market.no_price)
        refreshed_cost == refreshed_cost_of(market)
    IN
    IF opportunity_gone(refreshed_cost) THEN skipped
    ELSE
    LET yes_result == buy(poss, opp.condition_id, "YES", size \div 2, yes_price,
                          market.yes_token_id, market.no_token_id, TRUE, dry_run,
                          split_yes, NoAnswers, t)
    IN
    IF yes_result.status = "raised"
    THEN [skipped EXCEPT !.returned = "raised", !.splits = yes_result.splits,
                         !.yes_status = "raised", !.size = size]
    ELSE
    LET no_result == buy(yes_result.positions, opp.condition_id, "NO", size \div 2,
                         no_price, market.yes_token_id, market.no_token_id, TRUE,
                         dry_run, split_no, NoAnswers, t)
    IN
    IF no_result.status = "raised"
    THEN [returned    |-> "raised",
          positions   |-> yes_result.positions,
          trades      |-> trades,
          splits      |-> yes_result.splits + no_result.splits,
          splits_ok   |-> yes_result.splits_ok,
          yes_status  |-> yes_result.status,
          no_status   |-> "raised",
          size        |-> size]
    ELSE [returned    |-> "result",
          positions   |-> no_result.positions,
          trades      |-> IF ~dry_run THEN Append(trades, t) ELSE trades,
          splits      |-> yes_result.splits + no_result.splits,
          splits_ok   |-> yes_result.splits_ok + no_result.splits_ok,
          yes_status  |-> yes_result.status,
          no_status   |-> no_result.status,
          size        |-> size]

\* the tests execute_opportunity makes before it awaits get_market_detail: the
\* rate limit and the size
refused_before_refresh(trades, opp, t) ==
    \/ _trades_in_last_hour(trades, t) >= MAX_TRADES_PER_HOUR
    \/ Min(opp.max_size, MAX_POSITION_SIZE) <= 0

execute_opportunity(poss, trades, opp, dry_run, market, split_yes, split_no, t) ==
    IF refused_before_refresh(trades, opp, t)
    THEN [returned |-> "None", positions |-> poss, trades |-> trades,
          splits |-> 0, splits_ok |-> 0,
          yes_status |-> "none", no_status |-> "none", size |-> 0]
    ELSE execute_after_refresh(poss, trades, opp, dry_run, market, split_yes,
                               split_no, t)

-----------------------------------------------------------------------------
(* The scanners: scan_for_arbitrage (modules/scanner.py), analyze_event and  *)
(* scan_combinatorial (strategies/combinatorial.py) and                      *)
(* find_endgame_opportunities (strategies/endgame.py).  A profit ratio is an *)
(* integer in parts per million, rounded down; liquidity is in 0.01 dollar.  *)

PCT_SCALE == 1000000            \* the ratio 1.0 in parts per million
MIN_PROFIT_THRESHOLD == 5000    \* 0.005
MIN_LIQUIDITY == 100

\* a list left in the order it was built
unsorted(keyed) == keyed

\* list.sort(key=..., reverse=True) over <<key, item>> pairs: keys
\* non-increasing, items of equal key in their original order
sort_reverse(keyed) ==
    LET n == Len(keyed)
        rank(i) == 1 + Cardinality({j \in 1..n : keyed[j][1] > keyed[i][1]})
                     + Cardinality({j \in 1..(i - 1) : keyed[j][1] = keyed[i][1]})
    IN [k \in 1..n |-> keyed[CHOOSE i \in 1..n : rank(i) = k]]

\* the items of a sorted list of <<key, item>> pairs
Items(keyed) == [k \in 1..Len(keyed) |-> keyed[k][2]]

\* a liquidity test that also turns away a market exactly at the minimum
liquidity_too_low_at_minimum(liquidity) == liquidity <= MIN_LIQUIDITY

liquidity_too_low(liquidity) == liquidity < MIN_LIQUIDITY

\* a pair cost that leaves the fees out
net_cost_without_fee(yes_price, no_price) == yes_price + no_price

\* net_cost = yes_price + no_price + TAKER_FEE_RATE * 2
net_cost_of(yes_price, no_price) == yes_price + no_price + TAKER_FEE_RATE * 2

\* net_profit_pct = (1.0 - net_cost) / net_cost if net_cost > 0 else 0
net_profit_pct_of(net_cost) ==
    IF net_cost > 0 THEN ((ONE - net_cost) * PCT_SCALE) \div net_cost ELSE 0

\* the opportunity scan_for_arbitrage builds for a market, keyed for the sort
pair_cost_opp(market) ==
    LET net_cost == net_cost_of(market.yes_price, market.no_price)
    IN <<net_profit_pct_of(net_cost),
         [condition_id   |-> market.condition_id,
          yes_price      |-> market.yes_price,
          no_price       |-> market.no_price,
          total_cost     |-> net_cost,
          net_profit_pct |-> net_profit_pct_of(net_cost)]>>

\* the loop body's tests: both prices known, liquidity, profit
pair_cost_emits(market) ==
    /\ market.yes_price # None
    /\ market.no_price # None
    /\ ~liquidity_too_low(market.liquidity)
    /\ net_profit_pct_of(net_cost_of(market.yes_price, market.no_price))
          >= MIN_PROFIT_THRESHOLD

scan_for_arbitrage(markets) ==
    LET kept == SelectSeq(markets, pair_cost_emits)
    IN Items(sort_reverse([i \in 1..Len(kept) |-> pair_cost_opp(kept[i])]))

(* strategies/combinatorial.py *)

MIN_OUTCOMES == 3

NoOpportunity == [strategy |-> "none"]

\* an event filter that lets two-outcome events through
enough_outcomes_two(n) == n >= 2

\* len(markets) >= 3
enough_outcomes(n) == n >= MIN_OUTCOMES

\* fetch_neg_risk_events, from the events the API returned
fetch_neg_risk_events(events) ==
    SelectSeq(events, LAMBDA event : enough_outcomes(Len(event.markets)) /\ event.negRisk)

\* the yes price analyze_event settles on for a market: the YES token's price
\* (None without such a token), or, when that is missing or not positive, the
\* first of outcomePrices when the market has them
yes_price_of(m) ==
    IF m.token_price # None /\ m.token_price > 0 THEN m.token_price
    ELSE IF m.outcome_price # None THEN m.outcome_price
    ELSE m.token_price

\* not yes_price or yes_price <= 0
price_unusable(yes_price) == yes_price = None \/ yes_price <= 0

\* analyze_event: None as soon as a market has no usable price, None when the
\* smallest liquidity or the profit is under its threshold
analyze_event(event) ==
    LET markets == event.markets
        n == Len(markets)
        prices == [i \in 1..n |-> yes_price_of(markets[i])]
        min_liquidity == CHOOSE l \in {markets[i].liquidity : i \in 1..n} :
                            \A i \in 1..n : l <= markets[i].liquidity
        net_cost == SumSeq(prices) + TAKER_FEE_RATE * n
    IN IF \E i \in 1..n : price_unusable(prices[i]) THEN NoOpportunity
       ELSE IF n > 0 /\ liquidity_too_low(min_liquidity) THEN NoOpportunity
       ELSE IF net_profit_pct_of(net_cost) < MIN_PROFIT_THRESHOLD THEN NoOpportunity
       ELSE [strategy       |-> "combinatorial_arb",
             event_id       |-> event.id,
             num_outcomes   |-> n,
             yes_prices     |-> prices,
             total_cost     |-> net_cost,
             net_profit_pct |-> net_profit_pct_of(net_cost)]

scan_combinatorial(events) ==
    LET fetched == fetch_neg_risk_events(events)
        analyzed == [i \in 1..Len(fetched) |-> analyze_event(fetched[i])]
        kept == SelectSeq(analyzed, LAMBDA opp : opp # NoOpportunity)
    IN Items(sort_reverse([i \in 1..Len(kept) |-> <<kept[i].net_profit_pct, kept[i]>>]))

(* strategies/endgame.py; hours to resolution are counted in minutes, the    *)
(* annualized return in 0.01 percent                                         *)

MIN_CONFIDENCE == 950
MAX_HOURS_TO_RESOLUTION == 72
MIN_HOURS_TO_RESOLUTION == 1
MINUTES_PER_HOUR == 60
HOURS_PER_YEAR == 8760

\* <<quotient, remainder>> of n * 10^digits by d, from those of n by d, one
\* decimal digit at a time (the products stay within 32 bits)
RECURSIVE long_div(_, _, _)
long_div(qr, d, digits) ==
    IF digits = 0 THEN qr
    ELSE long_div(<<qr[1] * 10 + (qr[2] * 10) \div d, (qr[2] * 10) % d>>, d, digits - 1)

\* round(_annualize(profit_per_token / high_price, hours_remaining), 2), in
\* 0.01 percent: two digits for the percentage, two for the rounding, a tie to
\* the even neighbour
annualized_return_of(profit_per_token, high_price, minutes_remaining) ==
    LET n  == profit_per_token * HOURS_PER_YEAR * MINUTES_PER_HOUR
        d  == high_price * minutes_remaining
        qr == long_div(<<n \div d, n % d>>, d, 4)
    IN IF 2 * qr[2] < d THEN qr[1]
       ELSE IF 2 * qr[2] > d THEN qr[1] + 1
       ELSE IF qr[1] % 2 = 0 THEN qr[1] ELSE qr[1] + 1

\* a profit test that lets a price of exactly 1.0 through
no_profit_below_zero(profit_per_token) == profit_per_token < 0

\* profit_per_token <= 0
no_profit(profit_per_token) == profit_per_token <= 0

\* the side find_endgame_opportunities recommends: YES when its price is at
\* least the confidence, else NO when its price is, else none
high_side_of(market) ==
    IF market.yes_price >= MIN_CONFIDENCE THEN "YES"
    ELSE IF market.no_price >= MIN_CONFIDENCE THEN "NO"
    ELSE "none"

high_price_of(market) ==
    IF high_side_of(market) = "YES" THEN market.yes_price ELSE market.no_price

\* the loop body's tests, in the code's order; minutes_remaining is None for a
\* market with no end date or one that does not parse
endgame_emits(market) ==
    /\ market.minutes_remaining # None
    /\ ~(market.minutes_remaining < MIN_HOURS_TO_RESOLUTION * MINUTES_PER_HOUR)
    /\ ~(market.minutes_remaining > MAX_HOURS_TO_RESOLUTION * MINUTES_PER_HOUR)
    /\ market.yes_price # None
    /\ market.no_price # None
    /\ high_side_of(market) # "none"
    /\ ~no_profit(ONE - high_price_of(market))

endgame_opp(market) ==
    LET high_price == high_price_of(market)
        annualized_return == annualized_return_of(ONE - high_price, high_price,
                                                  market.minutes_remaining)
    IN <<annualized_return,
         [condition_id        |-> market.condition_id,
          recommended_side    |-> high_side_of(market),
          price               |-> high_price,
          minutes_remaining   |-> market.minutes_remaining,
          annualized_return   |-> annualized_return]>>

find_endgame_opportunities(markets) ==
    LET kept == SelectSeq(markets, endgame_emits)
    IN Items(sort_reverse([i \in 1..Len(kept) |-> endgame_opp(kept[i])]))

-----------------------------------------------------------------------------
(* modules/ws_feed.py *)

RECONNECT_DELAY_BASE == 1
RECONNECT_DELAY_MAX == 60

\* the delay after a transport failure, left as it is
next_delay_unchanged(delay) == delay

\* the delay after a transport failure: min(delay * 2, RECONNECT_DELAY_MAX)
next_delay(delay) == Min(delay * 2, RECONNECT_DELAY_MAX)

\* a callback's exception leaves the loop over the changes
after_callback_propagates(raised, rest) == IF raised THEN <<>> ELSE rest

\* what follows a callback in _process_event: the except clause around the
\* call catches what it raised, and the rest goes on
after_callback(raised, rest) == rest

\* the loop over the changes of a price_change event: per change with an
\* asset id, the cache update and then the callback, if one is registered
RECURSIVE price_changes(_, _, _)
price_changes(assets, registered, raising) ==
    IF assets = <<>> THEN <<>>
    ELSE LET token_id == Head(assets)
             rest == price_changes(Tail(assets), registered, raising)
         IN IF token_id = "" THEN rest
            ELSE IF ~registered THEN <<<<"cache", token_id>>>> \o rest
            ELSE <<<<"cache", token_id>>, <<"callback", token_id>>>>
                    \o after_callback(token_id \in raising, rest)

\* _process_event, as the sequence of cache updates and callback calls it makes
_process_event(event, registered, raising) ==
    LET token_id == Head(event.assets)
    IN IF event.event_type = "price_change"
       THEN price_changes(event.assets, registered, raising)
       ELSE IF event.event_type = "book"
       THEN IF token_id = "" THEN <<>>
            ELSE IF ~registered THEN <<<<"cache", token_id>>>>
            ELSE <<<<"cache", token_id>>, <<"callback", token_id>>>>
                    \o after_callback(token_id \in raising, <<>>)
       ELSE IF event.event_type = "last_trade_price"
       THEN IF token_id = "" THEN <<>> ELSE <<<<"cache", token_id>>>>
       ELSE <<>>

-----------------------------------------------------------------------------
(* State machine *)

(* A caller makes one call at a time and holds its result in `last` until it *)
(* drops it (Return); check_risk_limits may be called again while the        *)
(* previous check's result is still held.  Time passes at any point.         *)

Idle == [op |-> "idle"]

NoMessage == [event_type |-> "none"]

NoTick == [fetch |-> "none", ticked |-> <<>>]

NoSync == [pc |-> "none"]

Init ==
    /\ now = 0
    /\ _kill_switch_active = FALSE
    /\ _initial_portfolio_value = None
    /\ ipv_recorded_at = None
    /\ positions = <<>>
    /\ _recent_trades = <<>>
    /\ last = Idle
    /\ _running = FALSE
    /\ _reconnect_delay = RECONNECT_DELAY_BASE
    /\ feed_pc = "created"
    /\ connects = 0
    /\ waited = None
    /\ _ws = "none"
    /\ stops = 0
    /\ delivered = NoMessage
    /\ engine_running = FALSE
    /\ _cycle = 0
    /\ _ws_feed = FALSE
    /\ run_pc = "created"
    /\ poll_pc = "created"
    /\ feed_task = "none"
    /\ tick = NoTick
    /\ engine_stopped = FALSE
    /\ sync_task = NoSync
    /\ refreshing = 0

Return ==
    /\ last # Idle
    /\ last' = Idle
    /\ UNCHANGED <<now, _kill_switch_active, _initial_portfolio_value,
                   ipv_recorded_at, positions, _recent_trades>>
    /\ UNCHANGED <<feedVars, engineVars, taskVars>>

\* the clock moves on to a later sampled instant
Tick ==
    /\ \E t \in Times : t > now /\ now' = t
    /\ UNCHANGED <<_kill_switch_active, _initial_portfolio_value, ipv_recorded_at,
                   positions, _recent_trades, last>>
    /\ UNCHANGED <<feedVars, engineVars, taskVars>>

SetInitialPortfolioValue ==
    /\ last = Idle
    /\ \E value \in PortfolioValues :
        /\ _initial_portfolio_value' = value
        /\ ipv_recorded_at' = now
    /\ last' = [op |-> "set_initial_portfolio_value"]
    /\ UNCHANGED <<now, _kill_switch_active, positions, _recent_trades>>
    /\ UNCHANGED <<feedVars, engineVars, taskVars>>

ActivateKillSwitch ==
    /\ last = Idle
    /\ _kill_switch_active' = TRUE
    /\ last' = [op |-> "activate_kill_switch"]
    /\ UNCHANGED <<now, _initial_portfolio_value, ipv_recorded_at, positions,
                   _recent_trades>>
    /\ UNCHANGED <<feedVars, engineVars, taskVars>>

DeactivateKillSwitch ==
    /\ last = Idle
    /\ _kill_switch_active' = FALSE
    /\ last' = [op |-> "deactivate_kill_switch"]
    /\ UNCHANGED <<now, _initial_portfolio_value, ipv_recorded_at, positions,
                   _recent_trades>>
    /\ UNCHANGED <<feedVars, engineVars, taskVars>>

CheckRiskLimits ==
    /\ last.op \in {"idle", "check_risk_limits"}
    /\ \E proposed_size \in ProposedSizes, condition_id \in CheckedMarkets :
        LET r == check_risk_limits(_kill_switch_active, _initial_portfolio_value,
                                   positions, proposed_size, condition_id, now)
        IN /\ _kill_switch_active' = r.kill
           /\ last' = [op            |-> "check_risk_limits",
                       proposed_size |-> proposed_size,
                       condition_id  |-> condition_id,
                       at            |-> now,
                       kill_before   |-> _kill_switch_active,
                       repeat        |-> /\ last.op = "check_risk_limits"
                                         /\ last.proposed_size = proposed_size
                                         /\ last.condition_id = condition_id,
                       allowed       |-> r.allowed,
                       violations    |-> r.violations]
    /\ UNCHANGED <<now, _initial_portfolio_value, ipv_recorded_at, positions,
                   _recent_trades>>
    /\ UNCHANGED <<feedVars, engineVars, taskVars>>

\* the process starts again: the module globals are re-initialised, the
\* ledger file stays
Restart ==
    /\ last = Idle
    /\ _kill_switch_active' = FALSE
    /\ _initial_portfolio_value' = None
    /\ ipv_recorded_at' = None
    /\ _recent_trades' = <<>>
    /\ last' = [op |-> "restart"]
    /\ UNCHANGED <<now, positions>>
    /\ UNCHANGED <<feedVars, engineVars, taskVars>>

\* the CLOB answers a handler asks for: none when it places no order
AnswersWhen(asked, answers) == IF asked THEN answers ELSE {NoAnswers}

\* trading.buy, called directly (the CLI, the combinatorial and endgame paths),
\* with inputs and collaborator answers drawn from the sets of E
Buy(E) ==
    /\ last = Idle
    /\ \E condition_id \in E.markets, side \in E.sides, amount_usdc \in E.amounts,
          current_price \in E.prices, tokens \in E.tokens,
          skip_sell \in E.skip_sell, dry_run \in E.dry_run :
        \E split_outcome \in (IF dry_run THEN {"success"} ELSE E.splits) :
          \E order_outcomes \in AnswersWhen(~dry_run /\ split_outcome = "success"
                                            /\ ~skip_sell /\ tokens, E.answers) :
            LET r == buy(positions, condition_id, side, amount_usdc, current_price,
                         IF tokens THEN "yes_token" ELSE "",
                         IF tokens THEN "no_token" ELSE "",
                         skip_sell, dry_run, split_outcome, order_outcomes, now)
            IN /\ Len(r.positions) <= E.max_positions
               /\ positions' = r.positions
               /\ last' = [op            |-> "buy",
                           condition_id  |-> condition_id,
                           side          |-> side,
                           amount_usdc   |-> amount_usdc,
                           current_price |-> current_price,
                           skip_sell     |-> skip_sell,
                           tokens        |-> tokens,
                           dry_run       |-> dry_run,
                           split         |-> IF dry_run THEN "none" ELSE split_outcome,
                           status        |-> r.status,
                           splits        |-> r.splits,
                           splits_ok     |-> r.splits_ok,
                           sell          |-> r.sell,
                           answers       |-> order_outcomes,
                           recovered     |-> r.recovered,
                           entry_price   |-> r.entry_price,
                           notified      |-> r.notified,
                           recorded      |-> Len(r.positions) - Len(positions)]
    /\ UNCHANGED <<now, _kill_switch_active, _initial_portfolio_value,
                   ipv_recorded_at, _recent_trades>>
    /\ UNCHANGED <<feedVars, engineVars, taskVars>>

SellPosition(E) ==
    /\ last = Idle
    /\ \E condition_id \in E.markets, side \in E.sides, price \in E.sell_prices,
          dry_run \in E.dry_run :
        \E order_outcomes \in AnswersWhen(~dry_run, E.answers) :
          LET r == sell_position(positions, price, condition_id, side, dry_run,
                                 order_outcomes, now)
          IN /\ positions' = r.positions
             /\ last' = [op              |-> "sell_position",
                         dry_run         |-> dry_run,
                         condition_id    |-> condition_id,
                         side            |-> side,
                         price           |-> price,
                         status          |-> r.status,
                         order           |-> r.order,
                         answers         |-> order_outcomes,
                         position_closed |-> r.position_closed]
    /\ UNCHANGED <<now, _kill_switch_active, _initial_portfolio_value,
                   ipv_recorded_at, _recent_trades>>
    /\ UNCHANGED <<feedVars, engineVars, taskVars>>

\* one pass of the loop body of ArbStrategy.on_tick (also the CLI's --auto)
ExecuteOpportunity(E) ==
    /\ last = Idle
    /\ \E condition_id \in E.markets, max_size \in E.max_sizes,
          dry_run \in E.dry_run, market \in E.refreshed :
        \E split_yes \in (IF dry_run THEN {"success"} ELSE E.splits),
           split_no \in (IF dry_run THEN {"success"} ELSE E.splits) :
          LET opp == [condition_id |-> condition_id, max_size |-> max_size]
              r == execute_opportunity(positions, _recent_trades, opp, dry_run,
                                       market, split_yes, split_no, now)
          IN /\ Len(r.positions) <= E.max_positions
             /\ positions' = r.positions
             /\ _recent_trades' = r.trades
             /\ last' = [op          |-> "execute_opportunity",
                         dry_run     |-> dry_run,
                         returned    |-> r.returned,
                         splits      |-> r.splits,
                         splits_ok   |-> r.splits_ok,
                         recorded    |-> Len(r.positions) - Len(positions),
                         size        |-> r.size,
                         max_size    |-> max_size,
                         market      |-> market,
                         yes_status  |-> r.yes_status,
                         no_status   |-> r.no_status]
    /\ UNCHANGED <<now, _kill_switch_active, _initial_portfolio_value,
                   ipv_recorded_at>>
    /\ UNCHANGED <<feedVars, engineVars, taskVars>>

-----------------------------------------------------------------------------
(* The risk gate over a ledger that live trades fill *)

AllPlaced == [i \in 1..CLOB_MAX_RETRIES |-> TRUE]

RiskEnv ==
    [markets     |-> Markets,
     sides       |-> {"YES"},
     amounts     |-> {10},
     prices      |-> {500},
     tokens      |-> {TRUE},
     skip_sell   |-> {FALSE},
     dry_run     |-> {FALSE},
     splits      |-> {"success"},
     answers     |-> {AllPlaced},
     sell_prices |-> {200, 1000},
     max_positions |-> MaxPositions]

Next ==
    \/ Return
    \/ Tick
    \/ SetInitialPortfolioValue
    \/ ActivateKillSwitch
    \/ DeactivateKillSwitch
    \/ Restart
    \/ CheckRiskLimits
    \/ Buy(RiskEnv)
    \/ SellPosition(RiskEnv)

Spec == Init /\ [][Next]_vars

-----------------------------------------------------------------------------
(* The executor: buy, sell_position and execute_opportunity against every   *)
(* answer of the chain and the CLOB, with the kill switch operated by hand  *)

\* the markets get_market_detail can answer with on refresh
RefreshedMarkets ==
    {NoMarket} \cup
    {[found |-> TRUE, yes_price |-> y, no_price |-> n,
      yes_token_id |-> "yes_token", no_token_id |-> "no_token"] :
        y \in {None, 460}, n \in {500, 538}}

TradeEnv ==
    [markets     |-> {"m1"},
     sides       |-> Sides,
     amounts     |-> {10, 20},
     prices      |-> {500},
     tokens      |-> BOOLEAN,
     skip_sell   |-> BOOLEAN,
     dry_run     |-> BOOLEAN,
     splits      |-> SplitOutcomes,
     answers     |-> OrderOutcomes,
     sell_prices |-> {500},
     max_sizes   |-> {0, 40},
     refreshed   |-> RefreshedMarkets,
     max_positions |-> MaxTradePositions]

NextTrade ==
    \/ Return
    \/ ActivateKillSwitch
    \/ DeactivateKillSwitch
    \/ Restart
    \/ Buy(TradeEnv)
    \/ SellPosition(TradeEnv)
    \/ ExecuteOpportunity(TradeEnv)

SpecTrade == Init /\ [][NextTrade]_vars

-----------------------------------------------------------------------------
(* execute_opportunity as the coroutine it is: a call checks the rate limit, *)
(* is suspended at `await get_market_detail` and buys and records its trade *)
(* when it resumes; other calls run in between                               *)

MaxExecutions == 3              \* live executions begun within one hour (executions)

ExecutedOpportunity == [condition_id |-> "m1", max_size |-> 40]

\* lines 107-109: the rate limit is reached and the call returns None at once
ExecuteRefused ==
    /\ last = Idle
    /\ refused_before_refresh(_recent_trades, ExecutedOpportunity, now)
    /\ last' = [op |-> "execute_opportunity", dry_run |-> FALSE,
                returned |-> "None", recorded |-> 0, refused |-> TRUE]
    /\ UNCHANGED <<now, _kill_switch_active, _initial_portfolio_value,
                   ipv_recorded_at, positions, _recent_trades>>
    /\ UNCHANGED <<feedVars, engineVars, taskVars>>

\* lines 107-117: the tests pass and the call waits for the refreshed market
ExecuteSuspend ==
    /\ ~refused_before_refresh(_recent_trades, ExecutedOpportunity, now)
    /\ _trades_in_last_hour(_recent_trades, now) + refreshing < MaxExecutions
    /\ refreshing' = refreshing + 1
    /\ UNCHANGED <<botVars, feedVars, engineVars, sync_task>>

\* lines 118-166 of a suspended live call: the market is answered, both legs
\* are bought and the trade's timestamp is appended
ExecuteResume ==
    /\ refreshing > 0
    /\ last = Idle
    /\ \E market \in RefreshedMarkets, split_yes \in {"success", "failed"} :
        LET r == execute_after_refresh(positions, _recent_trades,
                                       ExecutedOpportunity, FALSE, market,
                                       split_yes, "success", now)
        IN /\ positions' = r.positions
           /\ _recent_trades' = r.trades
           /\ last' = [op |-> "execute_opportunity", dry_run |-> FALSE,
                       returned |-> r.returned,
                       recorded |-> Len(r.positions) - Len(positions),
                       refused  |-> FALSE]
    /\ refreshing' = refreshing - 1
    /\ UNCHANGED <<now, _kill_switch_active, _initial_portfolio_value,
                   ipv_recorded_at>>
    /\ UNCHANGED <<feedVars, engineVars, sync_task>>

NextExecutions ==
    \/ Return
    \/ Tick
    \/ ExecuteRefused
    \/ ExecuteSuspend
    \/ ExecuteResume

SpecExecutions == Init /\ [][NextExecutions]_vars

-----------------------------------------------------------------------------
(* The position ledger: every operation of modules/positions.py on the     *)
(* store, which a call may find unreadable, against every answer of the    *)
(* chain                                                                    *)

MaxLedgerPositions == 2         \* ledger length at which recording stops (ledger)

LedgerMarket == "m1"
LedgerSizes == {7, 10}
LedgerEntryPrice == 500
ExitPrices == {None, 377}

\* what the chain answers a reconciliation: whether each side's token id
\* resolves, and the balance held of it
ChainAnswers ==
    {[token   |-> [side \in Sides |-> side = "YES" \/ no_token],
      balance |-> [side \in Sides |-> IF side = "YES" THEN yes_balance
                                                       ELSE no_balance]] :
        no_token \in BOOLEAN, yes_balance \in {0, 7, 11}, no_balance \in {0, 11}}

\* the indices at which an operation changed or added a position
ChangedBy(after) ==
    {i \in 1..Len(after) : i > Len(positions) \/ after[i] # positions[i]}

RecordPosition ==
    /\ last = Idle
    /\ \E side \in Sides, size \in LedgerSizes, readable \in BOOLEAN :
        LET after == record_position(_load_positions(positions, readable),
                                     LedgerMarket, side, size, LedgerEntryPrice, now)
        IN /\ Len(after) <= MaxLedgerPositions
           /\ positions' = after
           /\ last' = [op       |-> "record_position",
                       readable |-> readable,
                       id       |-> after[Len(after)].id,
                       stored   |-> Len(positions)]
    /\ UNCHANGED <<now, _kill_switch_active, _initial_portfolio_value,
                   ipv_recorded_at, _recent_trades>>
    /\ UNCHANGED <<feedVars, engineVars, taskVars>>

\* the ids a caller may ask to close: those in the store and one that is not
KnownIds ==
    {positions[i].id : i \in 1..Len(positions)} \cup {<<"m2", "YES", 0>>}

ClosePosition ==
    /\ last = Idle
    /\ \E position_id \in KnownIds, exit_price \in ExitPrices, readable \in BOOLEAN :
        LET r == close_position(_load_positions(positions, readable),
                                position_id, exit_price, now)
        IN /\ positions' = IF r.closed THEN r.positions ELSE positions
           /\ last' = [op          |-> "close_position",
                       readable    |-> readable,
                       position_id |-> position_id,
                       exit_price  |-> exit_price,
                       returned    |-> r.closed,
                       changed     |-> IF r.closed THEN ChangedBy(r.positions)
                                                   ELSE {}]
    /\ UNCHANGED <<now, _kill_switch_active, _initial_portfolio_value,
                   ipv_recorded_at, _recent_trades>>
    /\ UNCHANGED <<feedVars, engineVars, taskVars>>

ClosePositionByMarket ==
    /\ last = Idle
    /\ \E side \in Sides, exit_price \in ExitPrices, readable \in BOOLEAN :
        LET r == close_position_by_market(_load_positions(positions, readable),
                                          LedgerMarket, side, exit_price, now)
        IN /\ positions' = IF r.closed THEN r.positions ELSE positions
           /\ last' = [op           |-> "close_position_by_market",
                       readable     |-> readable,
                       condition_id |-> LedgerMarket,
                       side         |-> side,
                       exit_price   |-> exit_price,
                       returned     |-> r.closed,
                       changed      |-> IF r.closed THEN ChangedBy(r.positions)
                                                    ELSE {}]
    /\ UNCHANGED <<now, _kill_switch_active, _initial_portfolio_value,
                   ipv_recorded_at, _recent_trades>>
    /\ UNCHANGED <<feedVars, engineVars, taskVars>>

\* whether the balanceOf call for each side's token returns: for both, or
\* not for YES
RpcAnswers ==
    {[side \in Sides |-> TRUE], [side \in Sides |-> side # "YES"]}

SyncPositionsWithChain ==
    /\ last = Idle
    /\ \E held \in ChainAnswers, rpc_ok \in RpcAnswers, readable \in BOOLEAN :
        LET chain == [token   |-> held.token,
                      balance |-> [side \in Sides |->
                                     get_onchain_balance(held.balance[side],
                                                         rpc_ok[side])]]
            r == sync_positions_with_chain(_load_positions(positions, readable),
                                           chain, now)
        IN /\ positions' = IF r.synced > 0 THEN r.positions ELSE positions
           /\ last' = [op            |-> "sync_positions_with_chain",
                       readable      |-> readable,
                       chain         |-> chain,
                       rpc_ok        |-> rpc_ok,
                       checked       |-> r.positions_checked,
                       discrepancies |-> r.discrepancies,
                       synced        |-> r.synced]
    /\ UNCHANGED <<now, _kill_switch_active, _initial_portfolio_value,
                   ipv_recorded_at, _recent_trades>>
    /\ UNCHANGED <<feedVars, engineVars, taskVars>>

GetPnlSummary ==
    /\ last = Idle
    /\ \E readable \in BOOLEAN :
        last' = [op       |-> "get_pnl_summary",
                 readable |-> readable,
                 summary  |-> get_pnl_summary(_load_positions(positions, readable))]
    /\ UNCHANGED <<now, _kill_switch_active, _initial_portfolio_value,
                   ipv_recorded_at, positions, _recent_trades>>
    /\ UNCHANGED <<feedVars, engineVars, taskVars>>

NextLedger ==
    \/ Return
    \/ RecordPosition
    \/ ClosePosition
    \/ ClosePositionByMarket
    \/ SyncPositionsWithChain
    \/ GetPnlSummary

SpecLedger == Init /\ [][NextLedger]_vars

-----------------------------------------------------------------------------
(* A reconciliation as the coroutine it is: sync_positions_with_chain loads *)
(* the store, is suspended at `await get_market_detail`, and saves the list *)
(* it loaded when it resumes; other callers of the ledger run in between    *)

\* line 270 and the first pass to line 277: the store is loaded and the call
\* waits for the market of its first open position (with no open position the
\* loop body never runs and the call is the single step SyncPositionsWithChain)
SyncLoad ==
    /\ sync_task = NoSync
    /\ LET loaded == _load_positions(positions, TRUE)
       IN /\ \E i \in 1..Len(loaded) : ~loaded[i].closed
          /\ sync_task' = [pc |-> "get_market_detail", positions |-> loaded]
    /\ UNCHANGED <<botVars, feedVars, engineVars, refreshing>>

\* the lookups are answered: the rest of the loop over the loaded list, and
\* the save of that list when a correction was made (lines 278-319)
SyncSave ==
    /\ sync_task # NoSync
    /\ last = Idle
    /\ \E held \in ChainAnswers :
        LET rpc_ok == [side \in Sides |-> TRUE]
            chain == [token   |-> held.token,
                      balance |-> [side \in Sides |->
                                     get_onchain_balance(held.balance[side],
                                                         rpc_ok[side])]]
            r == sync_positions_with_chain(sync_task.positions, chain, now)
        IN /\ positions' = IF r.synced > 0 THEN r.positions ELSE positions
           /\ last' = [op            |-> "sync_positions_with_chain",
                       readable      |-> TRUE,
                       chain         |-> chain,
                       rpc_ok        |-> rpc_ok,
                       checked       |-> r.positions_checked,
                       discrepancies |-> r.discrepancies,
                       synced        |-> r.synced]
    /\ sync_task' = NoSync
    /\ UNCHANGED <<now, _kill_switch_active, _initial_portfolio_value,
                   ipv_recorded_at, _recent_trades>>
    /\ UNCHANGED <<feedVars, engineVars, refreshing>>

NextReconcile ==
    \/ Return
    \/ RecordPosition
    \/ ClosePosition
    \/ SyncLoad
    \/ SyncSave

SpecReconcile == Init /\ [][NextReconcile]_vars

-----------------------------------------------------------------------------
(* The price feed: one run of MarketFeed.start(), with stop() arriving at   *)
(* any await.                                                               *)

MaxConnects == 8                \* connect attempts after which none is made (feed)
MaxStops == 2                   \* calls of stop() after which none is made (feed)
MaxChanges == 2                 \* most changes in one price_change event (feed)

\* how websockets.connect ends: a connection; ConnectionRefusedError or another
\* OSError; any other exception (a rejected handshake)
ConnectOutcomes == {"connected", "transport_error", "unexpected_error"}

\* how ws.send of the subscription ends: sent; ConnectionClosed
SendOutcomes == {"sent", "transport_error"}

\* how the async for over an open connection ends: the server closes the
\* connection normally; a message arrives after stop() (break); the connection
\* is lost (ConnectionClosedError); _handle_message raises
ListenOutcomes == {"closed_ok", "break", "transport_error", "unexpected_error"}

\* the events a message carries: a price_change with up to MaxChanges changes,
\* or an event about one asset; an asset id may be missing ("")
Assets == {"t1", "t2", ""}

Events ==
    {[event_type |-> "price_change", assets |-> a] :
        a \in UNION {[1..n -> Assets] : n \in 0..MaxChanges}}
    \cup {[event_type |-> ty, assets |-> <<a>>] :
            ty \in {"book", "last_trade_price", "tick_size_change"}, a \in Assets}

\* where start() stands after _connect_and_listen raised: out of the loop when
\* stop() was called, else in the sleep of the handler that caught it
Raised(kind) ==
    IF ~_running THEN "returned"
    ELSE IF kind = "transport_error" THEN "sleep_transport"
    ELSE "sleep_unexpected"

\* start(): _running = True, then the while loop
FeedStart ==
    /\ feed_pc = "created"
    /\ _running' = TRUE
    /\ feed_pc' = "loop"
    /\ UNCHANGED <<_reconnect_delay, connects, waited, _ws, stops, delivered>>
    /\ UNCHANGED <<botVars, engineVars, taskVars>>

\* while self._running: false after stop()
LoopExit ==
    /\ feed_pc = "loop"
    /\ ~_running
    /\ feed_pc' = "returned"
    /\ UNCHANGED <<_running, _reconnect_delay, connects, waited, _ws, stops,
                   delivered>>
    /\ UNCHANGED <<botVars, engineVars, taskVars>>

\* while self._running: true, _connect_and_listen calls websockets.connect
ConnectBegin ==
    /\ feed_pc = "loop"
    /\ _running
    /\ connects < MaxConnects
    /\ feed_pc' = "connecting"
    /\ connects' = connects + 1
    /\ waited' = None
    /\ UNCHANGED <<_running, _reconnect_delay, _ws, stops, delivered>>
    /\ UNCHANGED <<botVars, engineVars, taskVars>>

\* websockets.connect returns or raises
ConnectEnd ==
    /\ feed_pc = "connecting"
    /\ \E outcome \in ConnectOutcomes :
        IF outcome = "connected"
        THEN /\ _ws' = "open"
             /\ _reconnect_delay' = RECONNECT_DELAY_BASE
             /\ feed_pc' = "connected"
        ELSE /\ feed_pc' = Raised(outcome)
             /\ UNCHANGED <<_ws, _reconnect_delay>>
    /\ UNCHANGED <<_running, connects, waited, stops, delivered>>
    /\ UNCHANGED <<botVars, engineVars, taskVars>>

\* await ws.send(json.dumps(sub_msg)) returns or raises ConnectionClosed;
\* leaving the async with closes the connection
SubscribeSend ==
    /\ feed_pc = "connected"
    /\ \E outcome \in SendOutcomes :
        /\ IF outcome = "sent"
           THEN feed_pc' = "listening" /\ UNCHANGED _ws
           ELSE feed_pc' = Raised(outcome) /\ _ws' = "closed"
    /\ UNCHANGED <<_running, _reconnect_delay, connects, waited, stops, delivered>>
    /\ UNCHANGED <<botVars, engineVars, taskVars>>

\* a message arrives while the feed runs: json.loads, _handle_message
FeedMessage ==
    /\ feed_pc = "listening"
    /\ _ws = "open"
    /\ _running
    /\ \E event \in Events, registered \in BOOLEAN, raising \in {{}, {"t1"}} :
        /\ ~registered => raising = {}
        /\ delivered' = [event_type |-> event.event_type,
                         assets     |-> event.assets,
                         registered |-> registered,
                         raising    |-> raising,
                         effects    |-> _process_event(event, registered, raising)]
    /\ UNCHANGED <<_running, _reconnect_delay, feed_pc, connects, waited, _ws,
                   stops>>
    /\ UNCHANGED <<botVars, engineVars, taskVars>>

\* the async for over an open connection ends
ListenEnd ==
    /\ feed_pc = "listening"
    /\ _ws = "open"
    /\ \E outcome \in ListenOutcomes :
        /\ outcome = "break" => ~_running
        /\ feed_pc' = IF outcome \in {"closed_ok", "break"} THEN "loop"
                      ELSE Raised(outcome)
    /\ _ws' = "closed"
    /\ delivered' = NoMessage
    /\ UNCHANGED <<_running, _reconnect_delay, connects, waited, stops>>
    /\ UNCHANGED <<botVars, engineVars, taskVars>>

\* the async for over a connection that stop() has closed ends
ListenClosed ==
    /\ feed_pc = "listening"
    /\ _ws = "closed"
    /\ feed_pc' = "loop"
    /\ delivered' = NoMessage
    /\ UNCHANGED <<_running, _reconnect_delay, connects, waited, _ws, stops>>
    /\ UNCHANGED <<botVars, engineVars, taskVars>>

\* the sleep of the ConnectionClosed / ConnectionRefusedError / OSError handler
\* ends, and the delay doubles
WakeTransport ==
    /\ feed_pc = "sleep_transport"
    /\ waited' = _reconnect_delay
    /\ _reconnect_delay' = next_delay(_reconnect_delay)
    /\ feed_pc' = "loop"
    /\ UNCHANGED <<_running, connects, _ws, stops, delivered>>
    /\ UNCHANGED <<botVars, engineVars, taskVars>>

\* the sleep of the except Exception handler ends
WakeUnexpected ==
    /\ feed_pc = "sleep_unexpected"
    /\ waited' = _reconnect_delay
    /\ feed_pc' = "loop"
    /\ UNCHANGED <<_running, _reconnect_delay, connects, _ws, stops, delivered>>
    /\ UNCHANGED <<botVars, engineVars, taskVars>>

\* stop(), while start() stands at an await or has returned: _running = False,
\* and the connection _ws names, if any, is closed
FeedStop ==
    /\ feed_pc # "created"
    /\ stops < MaxStops
    /\ stops' = stops + 1
    /\ _running' = FALSE
    /\ _ws' = IF _ws = "open" THEN "closed" ELSE _ws
    /\ UNCHANGED <<_reconnect_delay, feed_pc, connects, waited, delivered>>
    /\ UNCHANGED <<botVars, engineVars, taskVars>>

NextFeed ==
    \/ FeedStart
    \/ LoopExit
    \/ ConnectBegin
    \/ ConnectEnd
    \/ SubscribeSend
    \/ FeedMessage
    \/ ListenEnd
    \/ ListenClosed
    \/ WakeTransport
    \/ WakeUnexpected
    \/ FeedStop

SpecFeed == Init /\ [][NextFeed]_vars

\* the steps start() takes by itself: a connect ends (websockets.connect has a
\* timeout), a send ends, a sleep ends, a closed connection ends the async for,
\* the while condition is read.  When a message or a close arrives from the
\* server is not the feed's to decide.
FeedFairness ==
    /\ WF_vars(LoopExit)
    /\ WF_vars(ConnectEnd)
    /\ WF_vars(SubscribeSend)
    /\ WF_vars(ListenClosed)
    /\ WF_vars(WakeTransport)
    /\ WF_vars(WakeUnexpected)

FairSpecFeed == SpecFeed /\ FeedFairness

-----------------------------------------------------------------------------
(* modules/engine.py: TradingEngine.run() with its two tasks, _poll_loop and *)
(* (with use_ws) _start_ws_feed, and stop() arriving at any await.           *)

MaxCycles == 2                  \* ticks after which the poll loop starts none (engine)

\* self.strategies, in registration order
Strategies == <<"arb", "endgame">>

\* an on_tick that raised ends the tick
after_raise_ends_tick(ticked) == Len(Strategies) + 1

\* the index of the strategy a tick goes on with after an on_tick has raised:
\* the except clause inside the for loop logs, and the loop goes on
after_raise(ticked) == Len(ticked) + 1

\* run(): _running = True, the poll task is created and enters its loop (the
\* first tick's fetch); with use_ws the feed task is created and starts its
\* own fetch
EngineRun ==
    /\ run_pc = "created"
    /\ \E use_ws \in BOOLEAN :
        feed_task' = IF use_ws THEN "fetching" ELSE "none"
    /\ engine_running' = TRUE
    /\ run_pc' = "gathering"
    /\ _cycle' = 1
    /\ poll_pc' = "fetching"
    /\ tick' = [fetch |-> "pending", ticked |-> <<>>]
    /\ UNCHANGED <<_ws_feed, engine_stopped>>
    /\ UNCHANGED <<botVars, feedVars, taskVars>>

\* markets = await self._fetch_markets() returns or raises
FetchEnd ==
    /\ poll_pc = "fetching"
    /\ \E ok \in BOOLEAN :
        IF ok /\ Len(Strategies) > 0
        THEN poll_pc' = "strategy" /\ tick' = [tick EXCEPT !.fetch = "ok"]
        ELSE /\ poll_pc' = "sleeping"
             /\ tick' = [tick EXCEPT !.fetch = IF ok THEN "ok" ELSE "failed"]
    /\ UNCHANGED <<engine_running, _cycle, _ws_feed, run_pc, feed_task,
                   engine_stopped>>
    /\ UNCHANGED <<botVars, feedVars, taskVars>>

\* await strategy.on_tick(markets) returns or raises
StrategyTick ==
    /\ poll_pc = "strategy"
    /\ \E raised \in BOOLEAN :
        LET k == Len(tick.ticked) + 1
            ticked == Append(tick.ticked, [name |-> Strategies[k], raised |-> raised])
            next == IF raised THEN after_raise(ticked) ELSE Len(ticked) + 1
        IN /\ tick' = [tick EXCEPT !.ticked = ticked]
           /\ poll_pc' = IF next <= Len(Strategies) THEN "strategy" ELSE "sleeping"
    /\ UNCHANGED <<engine_running, _cycle, _ws_feed, run_pc, feed_task,
                   engine_stopped>>
    /\ UNCHANGED <<botVars, feedVars, taskVars>>

\* await asyncio.sleep(self.interval) ends and the while condition is read
PollWake ==
    /\ poll_pc = "sleeping"
    /\ IF engine_running
       THEN /\ _cycle < MaxCycles
            /\ _cycle' = _cycle + 1
            /\ poll_pc' = "fetching"
            /\ tick' = [fetch |-> "pending", ticked |-> <<>>]
       ELSE /\ poll_pc' = "returned"
            /\ UNCHANGED <<_cycle, tick>>
    /\ UNCHANGED <<engine_running, _ws_feed, run_pc, feed_task, engine_stopped>>
    /\ UNCHANGED <<botVars, feedVars, taskVars>>

\* _start_ws_feed: its fetch raises; or yields no token id and the task
\* returns; or the MarketFeed is created and its start() entered
StartWsFeed ==
    /\ feed_task = "fetching"
    /\ \E outcome \in {"fetch_failed", "no_tokens", "tokens"} :
        IF outcome = "tokens"
        THEN /\ feed_task' = "started"
             /\ _ws_feed' = TRUE
             /\ _running' = TRUE
             /\ feed_pc' = "loop"
        ELSE /\ feed_task' = IF outcome = "no_tokens" THEN "returned" ELSE "failed"
             /\ UNCHANGED <<_ws_feed, _running, feed_pc>>
    /\ UNCHANGED <<engine_running, _cycle, run_pc, poll_pc, tick, engine_stopped>>
    /\ UNCHANGED <<_reconnect_delay, connects, waited, _ws, stops, delivered>>
    /\ UNCHANGED <<botVars, taskVars>>

\* stop(): _running = False, and the feed's stop() when self._ws_feed is set
EngineStop ==
    /\ run_pc = "gathering"
    /\ ~engine_stopped
    /\ engine_stopped' = TRUE
    /\ engine_running' = FALSE
    /\ IF _ws_feed
       THEN /\ _running' = FALSE
            /\ _ws' = IF _ws = "open" THEN "closed" ELSE _ws
            /\ stops' = stops + 1
       ELSE UNCHANGED <<_running, _ws, stops>>
    /\ UNCHANGED <<_cycle, _ws_feed, run_pc, poll_pc, feed_task, tick>>
    /\ UNCHANGED <<_reconnect_delay, feed_pc, connects, waited, delivered>>
    /\ UNCHANGED <<botVars, taskVars>>

\* await asyncio.gather(*tasks) ends: every task has returned, or the feed
\* task's fetch has raised
RunReturn ==
    /\ run_pc = "gathering"
    /\ \/ /\ poll_pc = "returned"
          /\ \/ feed_task \in {"none", "returned"}
             \/ feed_task = "started" /\ feed_pc = "returned"
          /\ run_pc' = "returned"
       \/ /\ feed_task = "failed"
          /\ run_pc' = "raised"
    /\ UNCHANGED <<engine_running, _cycle, _ws_feed, poll_pc, feed_task, tick,
                   engine_stopped>>
    /\ UNCHANGED <<botVars, feedVars, taskVars>>

NextEngine ==
    \/ EngineRun
    \/ FetchEnd
    \/ StrategyTick
    \/ PollWake
    \/ StartWsFeed
    \/ EngineStop
    \/ RunReturn
    \/ LoopExit
    \/ ConnectBegin
    \/ ConnectEnd
    \/ SubscribeSend
    \/ ListenEnd
    \/ ListenClosed
    \/ WakeTransport
    \/ WakeUnexpected

SpecEngine == Init /\ [][NextEngine]_vars

\* the steps the engine's tasks take by themselves: a fetch ends (the HTTP
\* client has a timeout), an on_tick ends, a sleep ends, gather returns
EngineFairness ==
    /\ WF_vars(FetchEnd)
    /\ WF_vars(StrategyTick)
    /\ WF_vars(PollWake)
    /\ WF_vars(StartWsFeed)
    /\ WF_vars(RunReturn)

FairSpecEngine == SpecEngine /\ FeedFairness /\ EngineFairness

-----------------------------------------------------------------------------
(* The scanners, each called on a list of markets or events drawn from       *)
(* samples on and around its thresholds                                      *)

MaxMarkets == 3                 \* longest list of markets scanned (scanners)

ListsOf(S, n) == UNION {[1..k -> S] : k \in 0..n}

\* market records as scan_for_arbitrage reads them: a pair cost of 0.995 and
\* of 0.996 (on either side of the profit threshold) and of 0.955, a missing
\* yes or no price, liquidity just under the minimum
PairMarkets ==
    {[condition_id |-> "c995", yes_price |-> 500, no_price |-> 493, liquidity |-> 100],
     [condition_id |-> "c996", yes_price |-> 500, no_price |-> 494, liquidity |-> 100],
     [condition_id |-> "c955", yes_price |-> 460, no_price |-> 493, liquidity |-> 120],
     [condition_id |-> "noyes", yes_price |-> None, no_price |-> 400, liquidity |-> 100],
     [condition_id |-> "nono", yes_price |-> 400, no_price |-> None, liquidity |-> 100],
     [condition_id |-> "thin", yes_price |-> 460, no_price |-> 493, liquidity |-> 99]}

\* markets of an event as analyze_event reads them: a YES token with a price,
\* a YES token priced 0 with outcomePrices to fall back on, no YES token and
\* outcomePrices of 0, liquidity just under the minimum
OutcomeMarkets ==
    {[token_price |-> 300, outcome_price |-> None, liquidity |-> 100],
     [token_price |-> 0, outcome_price |-> 310, liquidity |-> 100],
     [token_price |-> None, outcome_price |-> 0, liquidity |-> 100],
     [token_price |-> 300, outcome_price |-> None, liquidity |-> 99]}

OutcomeCounts == {2, 3}

\* the events of one response of the events API: none, one or two
EventLists ==
    LET Bodies == {[markets |-> ms, negRisk |-> nr] :
                      ms \in UNION {[1..k -> OutcomeMarkets] : k \in OutcomeCounts},
                      nr \in BOOLEAN}
        Event(id, b) == [id |-> id, markets |-> b.markets, negRisk |-> b.negRisk]
    IN {<<>>} \cup {<<Event("e1", b)>> : b \in Bodies}
              \cup {<<Event("e1", b1), Event("e2", b2)>> : b1 \in Bodies, b2 \in Bodies}

\* market records as find_endgame_opportunities reads them: resolution in 59
\* and 60 minutes, 72 hours and a minute more, a day; a side at, under and over
\* the confidence, at 1.0; no end date; a missing price
EndgameMarkets ==
    {[condition_id |-> "early", minutes_remaining |-> 59, yes_price |-> 960, no_price |-> 40],
     [condition_id |-> "hour", minutes_remaining |-> 60, yes_price |-> 960, no_price |-> 40],
     [condition_id |-> "days3", minutes_remaining |-> 4320, yes_price |-> 30, no_price |-> 950],
     [condition_id |-> "late", minutes_remaining |-> 4321, yes_price |-> 960, no_price |-> 40],
     [condition_id |-> "unsure", minutes_remaining |-> 1440, yes_price |-> 940, no_price |-> 60],
     [condition_id |-> "certain", minutes_remaining |-> 1440, yes_price |-> 1000, no_price |-> 0],
     [condition_id |-> "undated", minutes_remaining |-> None, yes_price |-> 960, no_price |-> 40],
     [condition_id |-> "unpriced", minutes_remaining |-> 1440, yes_price |-> None, no_price |-> 960],
     [condition_id |-> "day", minutes_remaining |-> 1440, yes_price |-> 990, no_price |-> 10]}

ScanForArbitrage ==
    /\ last = Idle
    /\ \E markets \in ListsOf(PairMarkets, MaxMarkets) :
        last' = [op            |-> "scan_for_arbitrage",
                 markets       |-> markets,
                 opportunities |-> scan_for_arbitrage(markets)]
    /\ UNCHANGED <<now, _kill_switch_active, _initial_portfolio_value,
                   ipv_recorded_at, positions, _recent_trades>>
    /\ UNCHANGED <<feedVars, engineVars, taskVars>>

ScanCombinatorial ==
    /\ last = Idle
    /\ \E events \in EventLists :
        last' = [op            |-> "scan_combinatorial",
                 events        |-> events,
                 opportunities |-> scan_combinatorial(events)]
    /\ UNCHANGED <<now, _kill_switch_active, _initial_portfolio_value,
                   ipv_recorded_at, positions, _recent_trades>>
    /\ UNCHANGED <<feedVars, engineVars, taskVars>>

FindEndgameOpportunities ==
    /\ last = Idle
    /\ \E markets \in ListsOf(EndgameMarkets, MaxMarkets) :
        last' = [op            |-> "find_endgame_opportunities",
                 markets       |-> markets,
                 opportunities |-> find_endgame_opportunities(markets)]
    /\ UNCHANGED <<now, _kill_switch_active, _initial_portfolio_value,
                   ipv_recorded_at, positions, _recent_trades>>
    /\ UNCHANGED <<feedVars, engineVars, taskVars>>

NextScan ==
    \/ Return
    \/ ScanForArbitrage
    \/ ScanCombinatorial
    \/ FindEndgameOpportunities

SpecScan == Init /\ [][NextScan]_vars

-----------------------------------------------------------------------------
(* Properties of the risk gate, checked under Spec *)

IsCheck == last.op = "check_risk_limits"

\* a check made in the Normal state (kill switch off on entry)
NormalCheck == IsCheck /\ ~last.kill_before

Reported(v) == \E i \in 1..Len(last.violations) : last.violations[i] = v

MidnightBefore(t) == t - (t % HOURS_PER_DAY)

\* the ledger's realized losses on positions closed at or after t0
ClosedLossSince(t0) ==
    LET I == {i \in 1..Len(positions) :
                /\ positions[i].closed
                /\ positions[i].closed_at >= t0
                /\ positions[i].realized_pnl < 0}
    IN SumSeq([i \in 1..Len(positions) |->
                 IF i \in I THEN 0 - positions[i].realized_pnl ELSE 0])

\* the open positions of the ledger, all of them or those of one market
OpenIndices == {i \in 1..Len(positions) : ~positions[i].closed}

OpenIndicesOf(condition_id) ==
    {i \in OpenIndices : positions[i].condition_id = condition_id}

ExposureOf(I) ==
    SumSeq([i \in 1..Len(positions) |->
              IF i \in I THEN positions[i].size * positions[i].entry_price ELSE 0])

\* C1: while the kill switch is active every check_risk_limits call returns
\* allowed = FALSE with the kill-switch violation as its only violation and
\* leaves the switch active; the switch is cleared by nothing but
\* deactivate_kill_switch or a restart of the process.
C1_KillSwitchSticks ==
    /\ [](IsCheck /\ last.kill_before =>
            /\ ~last.allowed
            /\ last.violations = <<V_KILL>>
            /\ _kill_switch_active)
    /\ [][_kill_switch_active /\ ~_kill_switch_active' =>
            last'.op \in {"deactivate_kill_switch", "restart"}]_vars

\* a check under an active switch whose other limits are violated as well
C1_Witness ==
    /\ IsCheck
    /\ last.kill_before
    /\ last.proposed_size > MAX_POSITION_SIZE
    /\ ClosedLossSince(MidnightBefore(last.at)) >= MAX_DAILY_LOSS * ONE
    /\ last.violations = <<V_KILL>>

\* two consecutive calls with the same arguments, the second made while the
\* first one's result is still held (no trade in between)
SameCallAgain ==
    /\ IsCheck
    /\ last'.op = "check_risk_limits"
    /\ last'.repeat

\* C3 as stated: two consecutive calls with identical arguments and no ledger
\* change in between return the same allowed value and the same violations.
C3_SameResultTwice ==
    [][SameCallAgain =>
         /\ last'.allowed = last.allowed
         /\ last'.violations = last.violations]_vars

\* C3, amended: the two calls return the same allowed value; they return the
\* same violations unless the first call tripped the kill switch, and then the
\* second returns the kill-switch violation alone.
C3_SameAllowedTwice ==
    [][SameCallAgain =>
         /\ last'.allowed = last.allowed
         /\ (_kill_switch_active = last.kill_before =>
                last'.violations = last.violations)
         /\ (_kill_switch_active /\ ~last.kill_before =>
                /\ ~last.allowed
                /\ last'.violations = <<V_KILL>>)]_vars

\* a repeated call in the Normal state that reports violations again, with
\* losses on the ledger that stay under both caps
C3_Witness ==
    /\ NormalCheck
    /\ last.repeat
    /\ ~_kill_switch_active
    /\ last.violations # <<>>
    /\ ClosedLossSince(MidnightBefore(last.at)) > 0

\* C4: in the Normal state a check whose ledger shows realized losses, on
\* positions closed since the last UTC midnight, of at least MAX_DAILY_LOSS
\* reports the daily-loss violation, returns allowed = FALSE and leaves the
\* kill switch active; below the cap it reports no daily-loss violation and
\* the switch is tripped only by the drawdown check.
C4_DailyLossTrip ==
    NormalCheck =>
        LET loss == ClosedLossSince(MidnightBefore(last.at))
        IN IF loss >= MAX_DAILY_LOSS * ONE
           THEN /\ Reported(V_DAILY)
                /\ ~last.allowed
                /\ _kill_switch_active
           ELSE /\ ~Reported(V_DAILY)
                /\ (_kill_switch_active => Reported(V_DRAWDOWN))

\* a check that trips on today's loss exactly at the cap, with an older loss
\* on the ledger that does not count
C4_Witness ==
    /\ NormalCheck
    /\ ClosedLossSince(MidnightBefore(last.at)) = MAX_DAILY_LOSS * ONE
    /\ ClosedLossSince(0) > MAX_DAILY_LOSS * ONE
    /\ Reported(V_DAILY)
    /\ _kill_switch_active

\* C5 as stated: with an initial portfolio value V > 0 recorded, a check in
\* the Normal state reports the drawdown violation and trips the kill switch
\* exactly when the loss realized since V was recorded, losses of earlier UTC
\* days included, is at least MAX_DRAWDOWN_PCT percent of V.
C5_DrawdownSinceRecorded ==
    NormalCheck =>
        LET V == _initial_portfolio_value
            hit == /\ V # None
                   /\ V > 0
                   /\ ClosedLossSince(ipv_recorded_at) * 100
                        >= MAX_DRAWDOWN_PCT * V * ONE
        IN IF hit
           THEN /\ Reported(V_DRAWDOWN)
                /\ ~last.allowed
                /\ _kill_switch_active
           ELSE ~Reported(V_DRAWDOWN)

\* the violations a Normal-state check reports, in order, from the ledger and
\* the arguments; drawdown as the gate measures it (today's loss against V)
ExpectedViolations ==
    LET size == last.proposed_size
        loss == ClosedLossSince(MidnightBefore(last.at))
        V == _initial_portfolio_value
        when(cond, v) == IF cond THEN <<v>> ELSE <<>>
    IN    when(size > MAX_POSITION_SIZE, V_SIZE)
       \o when(Cardinality(OpenIndices) >= MAX_CONCURRENT_POSITIONS, V_CONCURRENT)
       \o when(/\ last.condition_id # ""
               /\ ExposureOf(OpenIndicesOf(last.condition_id)) + size * ONE
                    > MAX_MARKET_EXPOSURE * ONE, V_MARKET)
       \o when(ExposureOf(OpenIndices) + size * ONE > MAX_TOTAL_EXPOSURE * ONE,
               V_TOTAL)
       \o when(loss >= MAX_DAILY_LOSS * ONE, V_DAILY)
       \o when(V # None /\ V > 0 /\ loss * 100 >= MAX_DRAWDOWN_PCT * V * ONE,
               V_DRAWDOWN)

C7_ExposureCaps ==
    IsCheck =>
        LET over_market ==
                /\ last.condition_id # ""
                /\ ExposureOf(OpenIndicesOf(last.condition_id))
                     + last.proposed_size * ONE > MAX_MARKET_EXPOSURE * ONE
            over_total ==
                ExposureOf(OpenIndices) + last.proposed_size * ONE
                    > MAX_TOTAL_EXPOSURE * ONE
        IN /\ (over_market \/ over_total => ~last.allowed)
           /\ (~last.kill_before =>
                  /\ Reported(V_MARKET) = over_market
                  /\ Reported(V_TOTAL) = over_total)

\* an allowed check on a market whose closed positions, had they counted,
\* would have put it over both caps
C7_Witness ==
    /\ NormalCheck
    /\ last.allowed
    /\ last.condition_id # ""
    /\ OpenIndicesOf(last.condition_id) # {}
    /\ LET all == {i \in 1..Len(positions) :
                      positions[i].condition_id = last.condition_id}
       IN ExposureOf(all) + last.proposed_size * ONE > MAX_TOTAL_EXPOSURE * ONE

-----------------------------------------------------------------------------
(* Properties of the executor, checked under SpecTrade *)

\* C2 as stated: every live trade the engine executes passes the risk gate
\* first; in particular, while the kill switch is active execute_opportunity
\* submits no split and records no position.
C2_NoTradeWhileHalted ==
    last.op = "execute_opportunity" /\ _kill_switch_active =>
        /\ last.splits = 0
        /\ last.recorded = 0

\* C8: a buy whose split transaction fails places no hedge order, records no
\* position and sends no trade notification, and returns the failure result
\* when the split reported failure; every position added to the ledger was
\* added by a buy (called directly or by execute_opportunity) whose split
\* succeeded, one position per successful split.
C8_SplitFailureAborts ==
    /\ [](last.op = "buy" /\ last.split \in {"failed", "raised"} =>
            /\ last.sell.calls = 0
            /\ last.recorded = 0
            /\ ~last.notified
            /\ (last.split = "failed" => last.status = "split_failed"))
    /\ [][Len(positions') > Len(positions) =>
            /\ last'.op \in {"buy", "execute_opportunity"}
            /\ last'.splits_ok = Len(positions') - Len(positions)
            /\ SubSeq(positions', 1, Len(positions)) = positions]_vars

\* a buy that would have hedged, stopped by a split that reported failure
C8_Witness ==
    /\ last.op = "buy"
    /\ last.split = "failed"
    /\ ~last.skip_sell
    /\ last.tokens
    /\ last.status = "split_failed"
    /\ last.recorded = 0

\* C9: after a successful split, buy records exactly one position whatever
\* became of the hedge (placed, failed on every retry, or skipped); recovered
\* is (1 - price) * amount when the hedge order was placed and 0 otherwise,
\* and the recorded entry price is (amount - recovered) / amount.
C9_HedgeOutcome ==
    last.op = "buy" /\ last.split = "success" =>
        LET amount == last.amount_usdc
            recorded == positions[Len(positions)]
        IN /\ last.status = "executed"
           /\ last.recorded = 1
           /\ (last.sell.calls > 0) = (~last.skip_sell /\ last.tokens)
           /\ last.recovered = IF last.sell.status = "placed"
                               THEN (ONE - last.current_price) * amount
                               ELSE 0
           /\ last.entry_price * amount = amount * ONE - last.recovered
           /\ recorded.entry_price = last.entry_price
           /\ recorded.size = amount
           /\ ~recorded.closed

\* a buy whose hedge failed on every retry: recorded unhedged, at full cost
C9_Witness ==
    /\ last.op = "buy"
    /\ last.split = "success"
    /\ last.sell.status = "None"
    /\ last.sell.calls = CLOB_MAX_RETRIES
    /\ last.recorded = 1
    /\ last.entry_price = ONE

\* the calls in which an order was handed to place_order
OrderAsked ==
    \/ last.op = "buy" /\ last.split = "success" /\ ~last.skip_sell /\ last.tokens
    \/ last.op = "sell_position" /\ ~last.dry_run

\* the first attempt the CLOB accepts, 0 when it accepts none
FirstPlaced(answers) ==
    IF \A i \in DOMAIN answers : ~answers[i] THEN 0
    ELSE CHOOSE i \in DOMAIN answers :
            answers[i] /\ \A j \in DOMAIN answers : answers[j] => i <= j

\* the sleeps after k failed attempts that are followed by another attempt
Backoff(k) == [i \in 1..k |-> Pow2(i - 1)]

\* C10: place_order makes at most CLOB_MAX_RETRIES attempts; it returns the
\* placed result at the first attempt that succeeds and attempts no more;
\* after failed attempt number a (from 0) it sleeps 2^a seconds unless that
\* was the last attempt; when every attempt fails it returns None.
C10_BoundedRetry ==
    OrderAsked =>
        LET order == IF last.op = "buy" THEN last.sell ELSE last.order
            k == FirstPlaced(last.answers)
        IN /\ order.calls \in 1..CLOB_MAX_RETRIES
           /\ IF k = 0
              THEN /\ order.status = "None"
                   /\ order.calls = CLOB_MAX_RETRIES
                   /\ order.sleeps = Backoff(CLOB_MAX_RETRIES - 1)
              ELSE /\ order.status = "placed"
                   /\ order.attempt = k
                   /\ order.calls = k
                   /\ order.sleeps = Backoff(k - 1)

\* an order placed on the last attempt allowed, after two backoffs
C10_Witness ==
    /\ OrderAsked
    /\ last.op = "sell_position"
    /\ last.order.status = "placed"
    /\ last.order.attempt = CLOB_MAX_RETRIES
    /\ last.order.sleeps = <<1, 2>>

\* the trades the rate limiter counted when the call held in `last` was made
TradesCountedBefore ==
    LET counted == Cardinality({i \in DOMAIN _recent_trades :
                                  _recent_trades[i] > now - TRADE_WINDOW})
    IN IF /\ last.op = "execute_opportunity"
          /\ last.returned = "result"
          /\ ~last.dry_run
       THEN counted - 1
       ELSE counted

\* C11 as stated: once the trades recorded within the trailing hour have
\* reached MAX_TRADES_PER_HOUR, a buy, called directly or through
\* execute_opportunity, attempts no split transaction and records no position.
C11_RateLimitRefusesBuy ==
    /\ last.op \in {"buy", "execute_opportunity"}
    /\ TradesCountedBefore >= MAX_TRADES_PER_HOUR
    => /\ last.splits = 0
       /\ last.recorded = 0

\* the cost execute_opportunity sees on the market it refreshed
CostOf(market) ==
    (IF market.yes_price = None THEN 0 ELSE market.yes_price)
    + (IF market.no_price = None THEN 0 ELSE market.no_price)
    + 2 * TAKER_FEE_RATE

Stale(market) == ~market.found \/ CostOf(market) >= ONE

\* C12: an execute_opportunity whose refreshed market is not found, or costs
\* yes + no + 2*fee >= 1.0, returns None without side effects: no split
\* transaction, no order, no ledger write, no timestamp for the rate limiter.
C12_StaleOpportunityAborts ==
    [][last'.op = "execute_opportunity" /\ last.op = "idle" /\ Stale(last'.market) =>
         /\ last'.returned = "None"
         /\ last'.splits = 0
         /\ positions' = positions
         /\ _recent_trades' = _recent_trades]_vars

\* a live execution, under the rate limit and with a positive size, given up
\* because the refreshed cost is exactly 1.0
C12_Witness ==
    /\ last.op = "execute_opportunity"
    /\ ~last.dry_run
    /\ last.max_size > 0
    /\ Len(_recent_trades) < MAX_TRADES_PER_HOUR
    /\ last.market.found
    /\ CostOf(last.market) = ONE
    /\ last.returned = "None"
    /\ last.splits = 0

\* C13 as stated: an execution that reaches its legs attempts every leg,
\* whatever became of the earlier ones, and returns the aggregate result with
\* one entry per leg; a failed leg leaves the earlier legs' positions recorded.
C13_EveryLegAttempted ==
    last.op = "execute_opportunity" /\ last.yes_status # "none" =>
        /\ last.no_status # "none"
        /\ last.returned = "result"
        /\ last.recorded = last.splits_ok

-----------------------------------------------------------------------------
(* Properties of the position ledger, checked under SpecLedger *)

\* the fields of a position that make its identity
Identity(p) == <<p.id, p.condition_id, p.side, p.entry_price, p.opened_at>>

\* C14 as stated: no ledger operation (record, close, close by market,
\* reconcile, a record after a load of a missing or corrupt store included)
\* removes a position from the store, reorders the store or changes a
\* position's id, condition_id, side, entry_price or opened_at.
C14_NeverDeleted ==
    [][/\ Len(positions') >= Len(positions)
       /\ \A i \in 1..Len(positions) :
            Identity(positions'[i]) = Identity(positions[i])]_vars

\* C15 as stated: the ids of the positions in the store are pairwise distinct,
\* two records for the same market and side in the same clock second included.
C15_IdsDistinct ==
    \A i, j \in 1..Len(positions) :
        i # j => positions[i].id # positions[j].id

IndicesWithId(position_id) ==
    {i \in 1..Len(positions) : positions[i].id = position_id}

ClosedIndices == {i \in 1..Len(positions) : positions[i].closed}

RealizedOf(I) ==
    SumSeq([i \in 1..Len(positions) |->
              IF i \in I THEN positions[i].realized_pnl ELSE 0])

\* what get_pnl_summary reports, against the store
SummaryMatchesStore ==
    /\ last.summary.realized_pnl = RealizedOf(ClosedIndices)
    /\ last.summary.closed = Cardinality(ClosedIndices)
    /\ last.summary.open = Len(positions) - Cardinality(ClosedIndices)

IsRounded(r, x) ==
    /\ r % PNL_QUANTUM = 0
    /\ 2 * (r - x) <= PNL_QUANTUM
    /\ 2 * (x - r) <= PNL_QUANTUM

OpenMatches(condition_id, side) ==
    {i \in 1..Len(positions) :
        /\ positions[i].condition_id = condition_id
        /\ positions[i].side = side
        /\ ~positions[i].closed}

\* C17: close_position_by_market closes, among the open positions with the
\* given condition_id and side, exactly the most recently recorded one, and
\* leaves every other position unchanged; with no such position (or a store
\* it cannot read) it changes nothing and returns False.
C17_ClosesLatestMatch ==
    [][last'.op = "close_position_by_market" /\ last.op = "idle" =>
         LET M == OpenMatches(last'.condition_id, last'.side)
         IN IF M = {} \/ ~last'.readable
            THEN /\ positions' = positions
                 /\ ~last'.returned
            ELSE LET k == CHOOSE i \in M : \A j \in M : j <= i
                 IN /\ last'.returned
                    /\ Len(positions') = Len(positions)
                    /\ positions'[k].closed
                    /\ positions'[k].closed_at = now
                    /\ Identity(positions'[k]) = Identity(positions[k])
                    /\ \A i \in 1..Len(positions) :
                         i # k => positions'[i] = positions[i]]_vars

\* a close by market that took the later of two open matches and left the
\* earlier one open
C17_Witness ==
    /\ last.op = "close_position_by_market"
    /\ last.returned
    /\ \E i, k \in 1..Len(positions) :
         /\ i < k
         /\ last.changed = {k}
         /\ positions[i].condition_id = last.condition_id
         /\ positions[i].side = last.side
         /\ positions[k].side = last.side
         /\ ~positions[i].closed

\* C18: reconciliation leaves an open position whose token resolves unchanged
\* when the on-chain balance is within 0.01 of its size; closes it, tagged
\* closed_by_chain_sync, when the difference is larger and the balance is 0;
\* sets its size to the balance, tagged size_adjusted_by_chain_sync, when the
\* difference is larger and the balance is not 0; it touches no other
\* position, and the discrepancies it returns count the positions corrected.
C18_ReconcileCases ==
    [][last'.op = "sync_positions_with_chain" /\ last.op = "idle"
       /\ last'.readable =>
         LET chain == last'.chain
             resolved(p) == ~p.closed /\ chain.token[p.side]
             far(p) == \/ chain.balance[p.side] - p.size > SYNC_TOLERANCE
                       \/ p.size - chain.balance[p.side] > SYNC_TOLERANCE
             corrected == {i \in 1..Len(positions) :
                             resolved(positions[i]) /\ far(positions[i])}
         IN /\ Len(positions') = Len(positions)
            /\ \A i \in 1..Len(positions) :
                 LET p == positions[i]
                     q == positions'[i]
                 IN IF i \notin corrected THEN q = p
                    ELSE IF chain.balance[p.side] = 0
                    THEN q = [p EXCEPT !.closed = TRUE, !.closed_at = now,
                                       !.sync_note = "closed_by_chain_sync"]
                    ELSE q = [p EXCEPT !.size = chain.balance[p.side],
                                       !.sync_note = "size_adjusted_by_chain_sync"]
            /\ last'.discrepancies = Cardinality(corrected)
            /\ last'.synced = Cardinality(corrected)]_vars

\* a reconciliation that closed one position as gone from the chain and left
\* alone another whose balance is exactly 0.01 off its size
C18_Witness ==
    /\ last.op = "sync_positions_with_chain"
    /\ last.discrepancies = 1
    /\ last.chain.token["NO"]
    /\ \E i, j \in 1..Len(positions) :
         /\ positions[i].sync_note = "closed_by_chain_sync"
         /\ positions[i].closed
         /\ positions[j].sync_note = "" 
         /\ ~positions[j].closed
         /\ positions[j].side = "YES"
         /\ positions[j].size = 10
         /\ last.chain.balance["YES"] = 11

-----------------------------------------------------------------------------
(* Properties of the price feed, checked under SpecFeed *)

\* C19: the reconnect delay is always between 1 s and 60 s; it is 1 s before
\* the first connect attempt; the wait after a transport failure lasts the
\* current delay, after which the delay is doubled, capped at 60 s; and the
\* delay is 1 s whenever the feed is subscribed.
C19_BackoffBounds ==
    /\ [](/\ _reconnect_delay >= 1
          /\ _reconnect_delay <= 60
          /\ (connects = 0 => _reconnect_delay = 1)
          /\ (feed_pc = "listening" => _reconnect_delay = 1))
    /\ [][feed_pc = "sleep_transport" /\ feed_pc' # "sleep_transport" =>
            /\ waited' = _reconnect_delay
            /\ _reconnect_delay' = IF 2 * _reconnect_delay > 60 THEN 60
                                   ELSE 2 * _reconnect_delay]_vars

\* the seventh transport failure in a row: the feed has just waited the full
\* 60 s and the delay stays at the cap
C19_Witness ==
    /\ feed_pc = "loop"
    /\ _running
    /\ waited = 60
    /\ _reconnect_delay = 60

\* C20 as stated: while the feed is running, every connect attempt after the
\* first is made only after a wait since the previous attempt ended.
C20_WaitsBeforeReconnect ==
    [][feed_pc = "loop" /\ feed_pc' = "connecting" /\ connects >= 1 =>
          waited # None]_vars

\* C21 as stated: once stop() has been called, no message updates the cache or
\* reaches a callback, no connect attempt begins, a further stop() changes
\* nothing of the feed, and start() returns, whichever await start() stood at
\* when stop() was called.
C21_StopIsFinal ==
    /\ [][stops >= 1 =>
            /\ delivered' \in {delivered, NoMessage}
            /\ (feed_pc' = "connecting" => feed_pc = "connecting")
            /\ (stops' > stops => _running' = _running /\ _ws' = _ws)]_vars
    /\ (stops >= 1 ~> feed_pc = "returned")

\* what handling a price_change or book event must do: per change that names
\* an asset, in order, the cache update and then the callback if registered
ExpectedEffects(d) ==
    LET toks == SelectSeq(d.assets, LAMBDA a : a # "")
    IN IF d.registered
       THEN [i \in 1..(2 * Len(toks)) |->
               IF i % 2 = 1 THEN <<"cache", toks[(i + 1) \div 2]>>
               ELSE <<"callback", toks[i \div 2]>>]
       ELSE [i \in 1..Len(toks) |-> <<"cache", toks[i]>>]

\* C22: handling a price_change or book event updates the cache for each of
\* its changes before the callback is called for that change, goes through
\* every change of the event whether or not a callback raised, and leaves the
\* feed listening on the same open connection, with no connect attempt made.
C22_CallbackIsolated ==
    [][/\ delivered' # delivered
       /\ delivered'.event_type \in {"price_change", "book"}
       => /\ delivered'.effects = ExpectedEffects(delivered')
          /\ feed_pc' = "listening"
          /\ _ws' = "open"
          /\ _running'
          /\ connects' = connects]_vars

\* a price_change with two changes whose callback raised on the first: the
\* second change is cached and called back, the feed still listens
C22_Witness ==
    /\ delivered.event_type = "price_change"
    /\ delivered.assets = <<"t1", "t2">>
    /\ delivered.registered
    /\ delivered.raising = {"t1"}
    /\ delivered.effects = <<<<"cache", "t1">>, <<"callback", "t1">>,
                             <<"cache", "t2">>, <<"callback", "t2">>>>
    /\ feed_pc = "listening"
    /\ _ws = "open"

-----------------------------------------------------------------------------
(* Properties of the engine, checked under SpecEngine and FairSpecEngine *)

\* the strategies whose on_tick this tick has called, in call order
TickedNames == [i \in 1..Len(tick.ticked) |-> tick.ticked[i].name]

\* C23: a tick whose fetch succeeded calls on_tick once on every registered
\* strategy, in registration order, whether or not an earlier on_tick raised; a
\* tick whose fetch failed calls none; the poll loop is left only when the
\* engine is no longer running, and while it runs the sleep of the interval is
\* followed by the next tick.
C23_TickOrder ==
    /\ [](/\ poll_pc = "strategy" =>
               /\ Len(tick.ticked) < Len(Strategies)
               /\ TickedNames = SubSeq(Strategies, 1, Len(tick.ticked))
          /\ (poll_pc = "sleeping" /\ tick.fetch = "ok" => TickedNames = Strategies)
          /\ (poll_pc = "sleeping" /\ tick.fetch = "failed" => tick.ticked = <<>>))
    /\ [][/\ (poll_pc' = "returned" /\ poll_pc # "returned" => ~engine_running)
          /\ (poll_pc = "sleeping" /\ poll_pc' # "sleeping" /\ engine_running =>
                /\ poll_pc' = "fetching"
                /\ _cycle' = _cycle + 1
                /\ tick'.ticked = <<>>)]_vars

\* the second tick, after a first whose fetch failed, has called every
\* strategy although the first strategy's on_tick raised
C23_Witness ==
    /\ engine_running
    /\ _cycle = 2
    /\ poll_pc = "sleeping"
    /\ tick.fetch = "ok"
    /\ tick.ticked = <<[name |-> "arb", raised |-> TRUE],
                       [name |-> "endgame", raised |-> FALSE]>>

\* C24 as stated: once stop() has been called after run() started, no new tick
\* starts, the feed is not set running, and run() returns.
C24_StopTerminates ==
    /\ [][engine_stopped =>
            /\ (poll_pc' = "fetching" => poll_pc = "fetching")
            /\ (_running' => _running)]_vars
    /\ (engine_stopped ~> run_pc \in {"returned", "raised"})

-----------------------------------------------------------------------------
(* A further property of the executor, checked under SpecTrade *)

\* C29 as stated, for execute_opportunity: when the refreshed market record
\* lacks its yes or its no price, no split is submitted and no position is
\* recorded.
C29_MissingPriceAborts ==
    /\ last.op = "execute_opportunity"
    /\ last.market.found
    /\ (last.market.yes_price = None \/ last.market.no_price = None)
    => /\ last.splits = 0
       /\ last.recorded = 0

-----------------------------------------------------------------------------
(* Properties of the scanners, checked under SpecScan *)

\* yes + no + 2*feeRate of an input market, from its own fields
PairCost(m) == m.yes_price + m.no_price + 2 * TAKER_FEE_RATE

\* both prices known and liquidity at least the minimum
Scannable(m) ==
    /\ m.yes_price # None
    /\ m.no_price # None
    /\ m.liquidity >= MIN_LIQUIDITY

\* how many of the returned opportunities are for condition c
EmittedFor(c) ==
    Cardinality({i \in 1..Len(last.opportunities) : last.opportunities[i].condition_id = c})

\* how many of the input markets m carry condition c and satisfy Q(m)
InputsFor(c, Q(_)) ==
    Cardinality({j \in 1..Len(last.markets) :
                    last.markets[j].condition_id = c /\ Q(last.markets[j])})

\* C25: scan_for_arbitrage returns exactly one opportunity for each input
\* market that has both prices, liquidity at least the minimum and
\* (1 - cost)/cost >= minProfit with cost = yes + no + 2*feeRate, and none for
\* any other market; each opportunity carries that market's prices and cost and
\* a net profit ratio of at least the minimum profit threshold.
C25_PairCostEmission ==
    last.op = "scan_for_arbitrage" =>
        LET Qualifies(m) ==
                /\ Scannable(m)
                /\ (ONE - PairCost(m)) * PCT_SCALE >= MIN_PROFIT_THRESHOLD * PairCost(m)
            Ids == {m.condition_id : m \in PairMarkets}
        IN /\ \A c \in Ids : EmittedFor(c) = InputsFor(c, Qualifies)
           /\ \A i \in 1..Len(last.opportunities) :
                LET opp == last.opportunities[i]
                IN /\ opp.net_profit_pct >= MIN_PROFIT_THRESHOLD
                   /\ \E j \in 1..Len(last.markets) :
                        /\ last.markets[j].condition_id = opp.condition_id
                        /\ last.markets[j].yes_price = opp.yes_price
                        /\ last.markets[j].no_price = opp.no_price
                        /\ PairCost(last.markets[j]) = opp.total_cost

\* a scan of three markets, one with liquidity exactly at the minimum and a
\* profit just over the threshold, one with too little liquidity and one
\* without its yes price: only the first is returned
C25_Witness ==
    /\ last.op = "scan_for_arbitrage"
    /\ Len(last.markets) = 3
    /\ \E j \in 1..3 : /\ last.markets[j].liquidity = MIN_LIQUIDITY
                       /\ PairCost(last.markets[j]) = 995
    /\ \E j \in 1..3 : last.markets[j].liquidity < MIN_LIQUIDITY
    /\ \E j \in 1..3 : last.markets[j].yes_price = None
    /\ Len(last.opportunities) = 1
    /\ last.opportunities[1].total_cost = 995

\* C26 as stated, over the markets the scanner can price (both prices known,
\* liquidity at least the minimum): one opportunity for a market with
\* yes + no + 2*fee < 1 - minProfit, none for one with
\* yes + no + 2*fee >= 1 - minProfit.
C26_Threshold ==
    last.op = "scan_for_arbitrage" =>
        LET Under(m) ==
                /\ Scannable(m)
                /\ PairCost(m) * PCT_SCALE < (PCT_SCALE - MIN_PROFIT_THRESHOLD) * ONE
        IN \A j \in 1..Len(last.markets) :
              Scannable(last.markets[j]) =>
                  EmittedFor(last.markets[j].condition_id)
                      = InputsFor(last.markets[j].condition_id, Under)

\* C26, amended: over the markets with both prices known and liquidity at
\* least the minimum, one opportunity for a market with
\* (yes + no + 2*fee) * (1 + minProfit) <= 1, none for one with
\* (yes + no + 2*fee) * (1 + minProfit) > 1; none for a market that lacks a
\* price or has less liquidity than the minimum.
C26_ThresholdAmended ==
    last.op = "scan_for_arbitrage" =>
        LET Within(m) ==
                /\ Scannable(m)
                /\ PairCost(m) * (PCT_SCALE + MIN_PROFIT_THRESHOLD) <= ONE * PCT_SCALE
        IN \A j \in 1..Len(last.markets) :
              EmittedFor(last.markets[j].condition_id)
                  = InputsFor(last.markets[j].condition_id, Within)

\* a scan of a market costing 0.995 and one costing 0.996: the first is
\* returned, at a cost that is not under 1 - minProfit, the second is not
C26_Witness ==
    /\ last.op = "scan_for_arbitrage"
    /\ \E j \in 1..Len(last.markets) :
          /\ Scannable(last.markets[j])
          /\ PairCost(last.markets[j]) = 995
          /\ EmittedFor(last.markets[j].condition_id) = 1
    /\ \E j \in 1..Len(last.markets) :
          /\ Scannable(last.markets[j])
          /\ PairCost(last.markets[j]) = 996
          /\ EmittedFor(last.markets[j].condition_id) = 0

\* an outcome of an event has a usable yes price: its YES token's price or,
\* failing that, the first of its outcomePrices is known and positive
UsablePrice(m) ==
    \/ m.token_price # None /\ m.token_price > 0
    \/ m.outcome_price # None /\ m.outcome_price > 0

\* the event may be emitted: at least 3 outcomes with a usable price, no
\* outcome without one, and no outcome's liquidity under the minimum
Emittable(event) ==
    /\ Cardinality({i \in 1..Len(event.markets) : UsablePrice(event.markets[i])}) >= 3
    /\ \A i \in 1..Len(event.markets) : UsablePrice(event.markets[i])
    /\ \A i \in 1..Len(event.markets) : event.markets[i].liquidity >= MIN_LIQUIDITY

\* C27: scan_combinatorial returns no opportunity for an event with fewer than
\* 3 outcomes that have a usable positive yes price, for an event with an
\* outcome that lacks a usable price, or for an event whose smallest outcome
\* liquidity is under the minimum; and at most one for any event.
C27_CombinatorialEmission ==
    last.op = "scan_combinatorial" =>
        /\ \A j \in 1..Len(last.events) :
              ~Emittable(last.events[j]) =>
                  \A i \in 1..Len(last.opportunities) :
                      last.opportunities[i].event_id # last.events[j].id
        /\ \A i \in 1..Len(last.opportunities) :
              /\ \E j \in 1..Len(last.events) :
                    /\ last.events[j].id = last.opportunities[i].event_id
                    /\ Len(last.events[j].markets) = last.opportunities[i].num_outcomes
              /\ \A k \in 1..Len(last.opportunities) :
                    last.opportunities[k].event_id = last.opportunities[i].event_id => k = i

\* a scan of two neg-risk events of three outcomes: the first, priced through
\* a YES token and through outcomePrices, is returned; the second, with one
\* outcome that has no usable price, is not
C27_Witness ==
    /\ last.op = "scan_combinatorial"
    /\ Len(last.events) = 2
    /\ Emittable(last.events[1])
    /\ \E i \in 1..3 : last.events[1].markets[i].token_price = 0
    /\ Len(last.events[2].markets) = 3
    /\ last.events[2].negRisk
    /\ Cardinality({i \in 1..3 : ~UsablePrice(last.events[2].markets[i])}) = 1
    /\ \A i \in 1..3 : last.events[2].markets[i].liquidity >= MIN_LIQUIDITY
    /\ Len(last.opportunities) = 1
    /\ last.opportunities[1].event_id = "e1"

\* the price of the side of market m that an opportunity recommends
SidePrice(m, side) == IF side = "YES" THEN m.yes_price ELSE m.no_price

\* hours remaining below 1 or above 72, in minutes
OutsideWindow(m) ==
    /\ m.minutes_remaining # None
    /\ \/ m.minutes_remaining < MIN_HOURS_TO_RESOLUTION * MINUTES_PER_HOUR
       \/ m.minutes_remaining > MAX_HOURS_TO_RESOLUTION * MINUTES_PER_HOUR

\* both prices known and neither at or above the minimum confidence
NeitherConfident(m) ==
    /\ m.yes_price # None
    /\ m.no_price # None
    /\ m.yes_price < MIN_CONFIDENCE
    /\ m.no_price < MIN_CONFIDENCE

\* both prices known and the qualifying side (YES first) priced exactly 1.0
QualifyingAtOne(m) ==
    /\ m.yes_price # None
    /\ m.no_price # None
    /\ \/ m.yes_price = ONE
       \/ m.yes_price < MIN_CONFIDENCE /\ m.no_price = ONE

\* C28: find_endgame_opportunities returns no opportunity for a market whose
\* hours to resolution are below 1 or above 72, nor for one with neither side
\* at or above the minimum confidence, nor for one whose qualifying side is
\* priced 1.0; every opportunity it returns is for an input market inside the
\* window and recommends a side of it priced at least the minimum confidence
\* and below 1.0.
C28_EndgameEmission ==
    last.op = "find_endgame_opportunities" =>
        /\ \A j \in 1..Len(last.markets) :
              LET m == last.markets[j]
              IN OutsideWindow(m) \/ NeitherConfident(m) \/ QualifyingAtOne(m)
                    => EmittedFor(m.condition_id) = 0
        /\ \A i \in 1..Len(last.opportunities) :
              LET opp == last.opportunities[i]
              IN /\ opp.recommended_side \in {"YES", "NO"}
                 /\ opp.price >= MIN_CONFIDENCE
                 /\ opp.price < ONE
                 /\ \E j \in 1..Len(last.markets) :
                       /\ last.markets[j].condition_id = opp.condition_id
                       /\ last.markets[j].minutes_remaining = opp.minutes_remaining
                       /\ opp.minutes_remaining >= MIN_HOURS_TO_RESOLUTION * MINUTES_PER_HOUR
                       /\ opp.minutes_remaining <= MAX_HOURS_TO_RESOLUTION * MINUTES_PER_HOUR
                       /\ SidePrice(last.markets[j], opp.recommended_side) = opp.price

\* a scan of a market resolving in exactly 72 hours with NO priced exactly at
\* the minimum confidence, one resolving a minute later and one priced 1.0:
\* only the first is returned, recommending NO
C28_Witness ==
    /\ last.op = "find_endgame_opportunities"
    /\ Len(last.markets) = 3
    /\ \E j \in 1..3 : last.markets[j].minutes_remaining
                          = MAX_HOURS_TO_RESOLUTION * MINUTES_PER_HOUR + 1
    /\ \E j \in 1..3 : last.markets[j].yes_price = ONE
    /\ Len(last.opportunities) = 1
    /\ last.opportunities[1].recommended_side = "NO"
    /\ last.opportunities[1].price = MIN_CONFIDENCE
    /\ last.opportunities[1].minutes_remaining = MAX_HOURS_TO_RESOLUTION * MINUTES_PER_HOUR

\* the keys of a scanner's result, in the order returned
Profitability(opp) ==
    IF last.op = "find_endgame_opportunities" THEN opp.annualized_return
    ELSE opp.net_profit_pct

\* C30: each scanner returns its opportunities in non-increasing order of
\* profitability (net profit ratio for pair-cost and combinatorial, annualized
\* return for endgame), whatever the input list and its order.
C30_RankOrdered ==
    last.op \in {"scan_for_arbitrage", "scan_combinatorial", "find_endgame_opportunities"} =>
        \A i \in 1..Len(last.opportunities) :
            \A k \in 1..Len(last.opportunities) :
                i < k => Profitability(last.opportunities[i])
                            >= Profitability(last.opportunities[k])

\* an endgame scan of three markets given in increasing order of annualized
\* return and returned in strictly decreasing order
C30_Witness ==
    /\ last.op = "find_endgame_opportunities"
    /\ Len(last.markets) = 3
    /\ Len(last.opportunities) = 3
    /\ \A i \in 1..3 :
          last.opportunities[i].condition_id = last.markets[4 - i].condition_id
    /\ last.opportunities[1].annualized_return > last.opportunities[2].annualized_return
    /\ last.opportunities[2].annualized_return > last.opportunities[3].annualized_return

-----------------------------------------------------------------------------
(* Further properties of the ledger, checked under SpecLedger *)

\* C31: close_position with an id that no stored position carries, and
\* close_position_by_market with no stored position of that market and side
\* still open, return False and leave the store as it was.
C31_CloseNoMatchIsNoOp ==
    [][/\ (/\ last'.op = "close_position"
           /\ last = Idle
           /\ \A i \in 1..Len(positions) : positions[i].id # last'.position_id)
          => /\ ~last'.returned
             /\ positions' = positions
       /\ (/\ last'.op = "close_position_by_market"
           /\ last = Idle
           /\ \A i \in 1..Len(positions) :
                ~(/\ positions[i].condition_id = last'.condition_id
                  /\ positions[i].side = last'.side
                  /\ ~positions[i].closed))
          => /\ ~last'.returned
             /\ positions' = positions]_vars

\* close_position_by_market returned False on a readable store of two
\* positions whose only position of that side is already closed
C31_Witness ==
    /\ last.op = "close_position_by_market"
    /\ last.readable
    /\ ~last.returned
    /\ Len(positions) = 2
    /\ \E i \in 1..2 : positions[i].side = last.side /\ positions[i].closed
    /\ \A i \in 1..2 : positions[i].side = last.side => positions[i].closed

\* C32 as stated, for the closing operations: a step of close_position,
\* close_position_by_market or sync_positions_with_chain leaves every position
\* that was closed before it closed, with the same closed_at, exit_price,
\* realized_pnl and size.
C32_ClosedIsTerminal ==
    [][last'.op \in {"close_position", "close_position_by_market",
                     "sync_positions_with_chain"}
       => \A i \in 1..Len(positions) :
             positions[i].closed =>
                /\ i <= Len(positions')
                /\ positions'[i].closed
                /\ positions'[i].closed_at = positions[i].closed_at
                /\ positions'[i].exit_price = positions[i].exit_price
                /\ positions'[i].realized_pnl = positions[i].realized_pnl
                /\ positions'[i].size = positions[i].size]_vars

\* C34 as stated: a reconciliation leaves an open position whose balance
\* query failed exactly as it was, and marks a position closed_by_chain_sync
\* only when the query for its token returned and read zero.
C34_FailedQueryLeavesLedger ==
    [][(last'.op = "sync_positions_with_chain" /\ last = Idle)
       => \A i \in 1..Len(positions) :
            /\ (/\ ~positions[i].closed
                /\ last'.chain.token[positions[i].side]
                /\ ~last'.rpc_ok[positions[i].side])
               => positions'[i] = positions[i]
            /\ (/\ ~positions[i].closed
                /\ positions'[i].closed)
               => last'.rpc_ok[positions[i].side]]_vars

\* the sizes of the open positions of poss on one side, summed
OpenSizeOf(poss, side) ==
    LET held == SelectSeq(poss, LAMBDA q : ~q.closed /\ q.side = side)
    IN SumSeq([k \in 1..Len(held) |-> held[k].size])

\* C37 as stated: after a reconciliation of a readable store in which every
\* balance query returned, for each token that resolves and that an open
\* position held, the sizes of the open positions of that token sum to within
\* 0.01 of the token's on-chain balance.
C37_SizesAgreeWithChain ==
    [][(/\ last'.op = "sync_positions_with_chain"
        /\ last = Idle
        /\ last'.readable
        /\ \A side \in Sides : last'.rpc_ok[side])
       => \A side \in Sides :
            (/\ last'.chain.token[side]
             /\ \E i \in 1..Len(positions) :
                    ~positions[i].closed /\ positions[i].side = side)
            => Abs(OpenSizeOf(positions', side) - last'.chain.balance[side])
                  <= SYNC_TOLERANCE]_vars

-----------------------------------------------------------------------------
(* Further properties of the executor, checked under SpecTrade *)

\* C36 as stated: when a live execute_opportunity has returned a result, the
\* two positions at the end of the ledger are the new ones, an open YES and an
\* open NO position, each of size min(max_size, MAX_POSITION_SIZE) / 2.
C36_LegsRecordedTogether ==
    /\ last.op = "execute_opportunity"
    /\ ~last.dry_run
    /\ last.returned = "result"
    => /\ last.recorded = 2
       /\ Len(positions) >= 2
       /\ LET yes_leg == positions[Len(positions) - 1]
              no_leg == positions[Len(positions)]
              size == Min(last.max_size, MAX_POSITION_SIZE)
          IN /\ yes_leg.side = "YES" /\ ~yes_leg.closed /\ 2 * yes_leg.size = size
             /\ no_leg.side = "NO" /\ ~no_leg.closed /\ 2 * no_leg.size = size

\* C38: a call of buy, sell_position or execute_opportunity with dry_run true
\* submits no split transaction, places no order, leaves the position store
\* as it was and records no trade timestamp, whatever calls came before it.
C38_DryRunNoSideEffects ==
    [][(/\ last'.op \in {"buy", "sell_position", "execute_opportunity"}
        /\ last'.dry_run)
       => /\ positions' = positions
          /\ _recent_trades' = _recent_trades
          /\ last'.op = "buy" => last'.splits = 0 /\ last'.sell.calls = 0
          /\ last'.op = "sell_position" => last'.order.calls = 0
          /\ last'.op = "execute_opportunity" => last'.splits = 0]_vars

\* a dry-run execute_opportunity that went through both legs and returned a
\* result, over the two positions and the timestamp of an earlier live one
C38_Witness ==
    /\ last.op = "execute_opportunity"
    /\ last.dry_run
    /\ last.returned = "result"
    /\ last.yes_status = "dry_run"
    /\ last.no_status = "dry_run"
    /\ last.recorded = 0
    /\ Len(positions) = 2
    /\ Len(_recent_trades) = 1

\* C39: a live sell_position whose order was placed returns sold and closes,
\* at the sell price, the most recently recorded open position of the market
\* and side (none when there is no such position) and nothing else; one whose
\* order failed on every attempt returns sell_failed and leaves the store as
\* it was.
C39_ExitClosesOnlyWhenPlaced ==
    [][(last'.op = "sell_position" /\ last = Idle /\ ~last'.dry_run) =>
         LET M == OpenMatches(last'.condition_id, last'.side)
             placed == \E k \in 1..CLOB_MAX_RETRIES : last'.answers[k]
         IN IF ~placed
            THEN /\ last'.status = "sell_failed"
                 /\ last'.order.calls = CLOB_MAX_RETRIES
                 /\ ~last'.position_closed
                 /\ positions' = positions
            ELSE /\ last'.status = "sold"
                 /\ last'.order.status = "placed"
                 /\ last'.position_closed = (M # {})
                 /\ Len(positions') = Len(positions)
                 /\ \A i \in 1..Len(positions) :
                      IF M # {} /\ i = (CHOOSE k \in M : \A j \in M : j <= k)
                      THEN /\ positions'[i].closed
                           /\ positions'[i].exit_price = last'.price
                           /\ Identity(positions'[i]) = Identity(positions[i])
                      ELSE positions'[i] = positions[i]]_vars

\* a live exit whose order failed on all attempts, with an open position of
\* that market and side still in the store
C39_Witness ==
    /\ last.op = "sell_position"
    /\ ~last.dry_run
    /\ last.status = "sell_failed"
    /\ last.order.calls = CLOB_MAX_RETRIES
    /\ OpenMatches(last.condition_id, last.side) # {}

-----------------------------------------------------------------------------
(* A property of the reconciliation among other tasks, checked under        *)
(* SpecReconcile                                                            *)

\* C33 as stated: when a reconciliation that was suspended at a market lookup
\* saves, every position that was recorded or changed in the store since the
\* reconciliation loaded it is still in the store, the same position, and if
\* it had been closed it is still closed with the same closed_at, exit_price
\* and realized_pnl.
C33_NoLostUpdate ==
    [][(sync_task # NoSync /\ sync_task' = NoSync) =>
         \A i \in 1..Len(positions) :
            (i > Len(sync_task.positions) \/ positions[i] # sync_task.positions[i])
            => /\ i <= Len(positions')
               /\ Identity(positions'[i]) = Identity(positions[i])
               /\ positions[i].closed =>
                     /\ positions'[i].closed
                     /\ positions'[i].closed_at = positions[i].closed_at
                     /\ positions'[i].exit_price = positions[i].exit_price
                     /\ positions'[i].realized_pnl = positions[i].realized_pnl]_vars

-----------------------------------------------------------------------------
(* A property of concurrent executions, checked under SpecExecutions *)

\* C35 as stated: in every hour ending at a sampled instant, the live
\* executions recorded by execute_opportunity number at most
\* MAX_TRADES_PER_HOUR.
C35_RateLimitHolds ==
    \A t \in Times :
        Cardinality({i \in 1..Len(_recent_trades) :
                        /\ _recent_trades[i] > t - TRADE_WINDOW
                        /\ _recent_trades[i] <= t}) <= MAX_TRADES_PER_HOUR

====
